---- MODULE Spec2Model ----
(***************************************************************************)
(* Verification model of the Kainotes blockchain node.                     *)
(*                                                                         *)
(*   blockchain-core/src/state.rs        WorldState, Account               *)
(*   blockchain-core/src/chain.rs        Blockchain                        *)
(*   blockchain-core/src/block.rs        Block, BlockHeader                *)
(*   blockchain-core/src/transaction.rs  Transaction                       *)
(*   blockchain-core/src/mempool.rs      TransactionPool                   *)
(*   blockchain-core/src/fork.rs         ForkResolver                      *)
(*   blockchain-crypto/src/merkle.rs     MerkleTree                        *)
(*   consensus/src/slashing.rs           SlashingManager                   *)
(*   consensus/src/validator.rs          ValidatorInfo, ValidatorSet       *)
(*   consensus/src/poas.rs               PoASConsensus                     *)
(*   consensus/src/selection.rs          ValidatorSelector                 *)
(*   storage/src/db.rs                   Database                          *)
(*   node/src/runtime.rs                 Node                              *)
(*   networking/src/p2p.rs               NetworkService                    *)
(*                                                                         *)
(* Every component is a group of variables.  A specification exercises one *)
(* component and leaves the variables of the others at their initial       *)
(* values:                                                                 *)
(*   SpecState   WorldState under checkpoint / commit / rollback           *)
(*   SpecExec    Blockchain::execute_transaction                           *)
(*   SpecBlocks  Blockchain::add_block and Block::validate                 *)
(*   SpecPool    TransactionPool                                           *)
(*   SpecAccount Account staking and liquidity                             *)
(*   SpecFork    ForkResolver over the block store of a forked chain       *)
(*   SpecReorg   PoASConsensus::apply_reorg                                *)
(*   SpecFinality PoASConsensus::is_finalized                              *)
(*   SpecSlash   SlashingManager::slash_validator                          *)
(*   SpecSelect  PoASConsensus::select_proposer                            *)
(*   SpecProposed PoASConsensus::validate_block                            *)
(*   SpecStore   Database::store_block, a step per write                   *)
(*   SpecProduce Node::produce_block                                       *)
(*   SpecSync    NetworkService::handle_mempool_sync_request, a step per   *)
(*               lock                                                      *)
(*   SpecMerkle  MerkleTree::new                                           *)
(*   SpecLocks   the locks of the node's tasks and handlers, a step per    *)
(*               acquisition                                               *)
(*   SpecPropose PoASConsensus::produce_block                              *)
(*   SpecStake   SlashingManager::slash_validator on wide stakes           *)
(*                                                                         *)
(* Byte strings are sequences of integers.  A hash is the byte string it   *)
(* was computed from behind a non-zero tag (collision freedom), and        *)
(* Hash::zero() is the one hash that is the image of nothing.              *)
(***************************************************************************)
EXTENDS Integers, Sequences, FiniteSets, TLC

VARIABLES
    accounts,          \* WorldState.accounts : Address -> Account (partial)
    modifications,     \* WorldState.modifications : Vec<StateModification>
    blocks,            \* Blockchain.blocks : Hash -> Block (partial)
    block_by_number,   \* Blockchain.block_by_number : BlockNumber -> Hash
    head,              \* Blockchain.head
    receipts,          \* Blockchain.receipts : Hash -> TransactionReceipt
    config,            \* TransactionPool.config
    pending,           \* TransactionPool.pending : gas_price -> Hash -> entry
    queued,            \* TransactionPool.queued : Address -> nonce -> entry
    by_hash,           \* TransactionPool.by_hash : Hash -> Transaction
    by_sender,         \* TransactionPool.by_sender : Address -> count
    metrics,           \* TransactionPool.metrics
    consensus,         \* PoASConsensus
    database,          \* Database: the column families of the store
    network,           \* NetworkService.inflight and NetworkService.outbox
    tasks,             \* the calls in progress and the position of each
    frames,            \* history: the open checkpoints, oldest first
    last               \* history: the last call, its inputs and its result

wsVars    == <<accounts, modifications>>
chainVars == <<blocks, block_by_number, head, receipts>>
poolVars  == <<config, pending, queued, by_hash, by_sender, metrics>>
nodeVars  == <<database, network, tasks>>
vars      == <<accounts, modifications, blocks, block_by_number, head,
               receipts, config, pending, queued, by_hash, by_sender,
               metrics, consensus, database, network, tasks, frames, last>>

----------------------------------------------------------------------------
(* Bounds of the model *)

MaxAddr == 1        \* addresses are 0..MaxAddr; 0 is Address::zero()
MaxDepth == 2       \* open checkpoints
MaxNonce == 1       \* account nonces stay within 0..MaxNonce
MaxUnits == 1       \* amounts used by the WorldState operations
MaxLog == 3         \* entries of the modification log

Address == 0..MaxAddr

----------------------------------------------------------------------------
(* Option<T> and partial maps (HashMap, BTreeMap) *)

None == <<>>
Some(v) == <<v>>

EmptyMap == <<>>
MapInsert(m, k, v) == [x \in (DOMAIN m) \cup {k} |-> IF x = k THEN v ELSE m[x]]
MapRemove(m, k) == [x \in (DOMAIN m) \ {k} |-> m[x]]
MapGet(m, k) == IF k \in DOMAIN m THEN Some(m[k]) ELSE None

Front(s) == SubSeq(s, 1, Len(s) - 1)
Last(s) == s[Len(s)]

----------------------------------------------------------------------------
(* state.rs: Account *)

\* Account::new
AccountNew == [nonce |-> 0, balance |-> 0, staked |-> 0, liquidity_deployed |-> 0]

\* Account::with_balance
with_balance(balance) == [AccountNew EXCEPT !.balance = balance]

\* The fallible Account methods return [ok, err, acc]: acc is the account as
\* the method leaves it, also when it fails with error err.
increment_nonce(acc) == [acc EXCEPT !.nonce = @ + 1]

AccOk(acc) == [ok |-> TRUE, err |-> "", acc |-> acc]
AccErr(err, acc) == [ok |-> FALSE, err |-> err, acc |-> acc]

\* Amount is a BigUint: checked_add never fails
add_balance(acc, amount) == AccOk([acc EXCEPT !.balance = @ + amount])

sub_balance(acc, amount) ==
    IF acc.balance < amount
    THEN AccErr("InsufficientBalance", acc)
    ELSE AccOk([acc EXCEPT !.balance = @ - amount])

stake(acc, amount) ==
    LET s == sub_balance(acc, amount)
    IN  IF ~s.ok THEN s ELSE AccOk([s.acc EXCEPT !.staked = @ + amount])

unstake(acc, amount) ==
    IF acc.staked < amount
    THEN AccErr("StateError", acc)
    ELSE add_balance([acc EXCEPT !.staked = @ - amount], amount)

deploy_liquidity(acc, amount) ==
    IF acc.staked < amount
    THEN AccErr("StateError", acc)
    ELSE AccOk([acc EXCEPT !.liquidity_deployed = @ + amount])

withdraw_liquidity(acc, amount) ==
    IF acc.liquidity_deployed < amount
    THEN AccErr("StateError", acc)
    ELSE AccOk([acc EXCEPT !.liquidity_deployed = @ - amount])

----------------------------------------------------------------------------
(* state.rs: WorldState.  A world state value is [accounts, modifications] *)

\* enum StateModification
CheckpointMark == [kind |-> "Checkpoint", address |-> 0, old_account |-> None]
AccountSet(address, old_account) ==
    [kind |-> "AccountSet", address |-> address, old_account |-> old_account]

WorldStateNew == [accounts |-> EmptyMap, modifications |-> <<>>]

get_account(ws, address) ==
    IF address \in DOMAIN ws.accounts THEN ws.accounts[address] ELSE AccountNew

get_balance(ws, address) ==
    IF address \in DOMAIN ws.accounts THEN ws.accounts[address].balance ELSE 0

get_nonce(ws, address) ==
    IF address \in DOMAIN ws.accounts THEN ws.accounts[address].nonce ELSE 0

\* The backwards search of record_account_modification: is there an
\* AccountSet of address among mods[1..i] after the last Checkpoint?
RECURSIVE RecordedSinceCheckpoint(_, _, _)
RecordedSinceCheckpoint(mods, i, address) ==
    IF i = 0 THEN FALSE
    ELSE IF mods[i].kind = "Checkpoint" THEN FALSE
    ELSE IF mods[i].address = address THEN TRUE
    ELSE RecordedSinceCheckpoint(mods, i - 1, address)

record_account_modification(ws, address) ==
    IF RecordedSinceCheckpoint(ws.modifications, Len(ws.modifications), address)
    THEN ws
    ELSE [ws EXCEPT !.modifications =
             Append(@, AccountSet(address, MapGet(ws.accounts, address)))]

\* get_account_mut: the caller then updates accounts[address] in place
get_account_mut(ws, address) ==
    LET r == record_account_modification(ws, address)
    IN  IF address \in DOMAIN r.accounts THEN r
        ELSE [r EXCEPT !.accounts = MapInsert(@, address, AccountNew)]

set_account(ws, address, account) ==
    LET r == record_account_modification(ws, address)
    IN  [r EXCEPT !.accounts = MapInsert(@, address, account)]

\* WorldState::transfer returns [ok, ws]
transfer(ws, from, to, amount) ==
    LET from_account == get_account(ws, from)
        to_account == get_account(ws, to)
    IN  IF from_account.balance < amount
        THEN [ok |-> FALSE, ws |-> ws]
        ELSE LET new_from == sub_balance(from_account, amount).acc
                 new_to == add_balance(to_account, amount).acc
             IN  [ok |-> TRUE,
                  ws |-> set_account(set_account(ws, from, new_from), to, new_to)]

checkpoint(ws) == [ws EXCEPT !.modifications = Append(@, CheckpointMark)]

RECURSIVE commit(_)
commit(ws) ==
    IF ws.modifications = <<>> THEN ws
    ELSE LET mod_type == Last(ws.modifications)
             popped == [ws EXCEPT !.modifications = Front(@)]
         IN  IF mod_type.kind = "Checkpoint" THEN popped ELSE commit(popped)

\* rollback with the removal of accounts that did not exist left out
RECURSIVE rollback_keeps_new_accounts(_)
rollback_keeps_new_accounts(ws) ==
    IF ws.modifications = <<>> THEN ws
    ELSE LET mod_type == Last(ws.modifications)
             popped == [ws EXCEPT !.modifications = Front(@)]
         IN  IF mod_type.kind = "Checkpoint" THEN popped
             ELSE IF mod_type.old_account # None
                  THEN rollback_keeps_new_accounts(
                           [popped EXCEPT !.accounts =
                               MapInsert(@, mod_type.address, mod_type.old_account[1])])
                  ELSE rollback_keeps_new_accounts(popped)

RECURSIVE rollback(_)
rollback(ws) ==
    IF ws.modifications = <<>> THEN ws
    ELSE LET mod_type == Last(ws.modifications)
             popped == [ws EXCEPT !.modifications = Front(@)]
         IN  IF mod_type.kind = "Checkpoint" THEN popped
             ELSE IF mod_type.old_account # None
                  THEN rollback([popped EXCEPT !.accounts =
                           MapInsert(@, mod_type.address, mod_type.old_account[1])])
                  ELSE rollback([popped EXCEPT !.accounts =
                           MapRemove(@, mod_type.address)])

----------------------------------------------------------------------------
(* hash.rs, and the bincode serializations that are hashed *)

\* Hash::zero()
ZeroHash == <<0>>

\* Hashable::hash of a byte string
HashBytes(bytes) == <<1>> \o bytes

\* a variable-length field, length first
Field(bytes) == <<Len(bytes)>> \o bytes

Min(S) == CHOOSE x \in S : \A y \in S : x <= y

SerAccount(acc) == <<acc.nonce, acc.balance, acc.staked, acc.liquidity_deployed>>

\* the accounts of addrs in ascending address order, each behind its address
RECURSIVE SerAccounts(_, _)
SerAccounts(accts, addrs) ==
    IF addrs = {} THEN <<>>
    ELSE LET a == Min(addrs)
         IN  <<a>> \o SerAccount(accts[a]) \o SerAccounts(accts, addrs \ {a})

\* WorldState::state_root
state_root(ws) ==
    LET combined == SerAccounts(ws.accounts, DOMAIN ws.accounts)
    IN  IF combined = <<>> THEN ZeroHash ELSE HashBytes(combined)

----------------------------------------------------------------------------
(* transaction.rs.  A transaction is                                       *)
(*   [from, nonce, tx_type, gas_price, gas_limit, signature]               *)
(* with tx_type = [kind, to, amount, data]: to is the recipient or called  *)
(* contract, data the bytecode or call data; signature is Option<()>.      *)

TxKinds == <<"Transfer", "Stake", "Unstake", "DeployLiquidity",
             "WithdrawLiquidity", "ContractDeployment", "ContractCall">>

KindCode(kind) == CHOOSE i \in DOMAIN TxKinds : TxKinds[i] = kind

SerTransaction(tx) ==
    <<tx.from, tx.nonce, KindCode(tx.tx_type.kind), tx.tx_type.to, tx.tx_type.amount>>
    \o Field(tx.tx_type.data)
    \o <<tx.gas_price, tx.gas_limit, Len(tx.signature)>>

\* Transaction::hash
TxHash(tx) == HashBytes(SerTransaction(tx))

\* Transaction::calculate_fee
calculate_fee(tx, gas_used) == gas_used * tx.gas_price

\* Transaction::validate_basic
validate_basic(tx) ==
    /\ tx.signature # None
    /\ tx.gas_limit # 0
    /\ tx.gas_price # 0
    /\ tx.tx_type.kind \in {"Transfer", "Stake", "Unstake", "DeployLiquidity",
                             "WithdrawLiquidity"} => tx.tx_type.amount # 0
    /\ tx.tx_type.kind \in {"ContractDeployment", "ContractCall"} =>
           tx.tx_type.data # <<>>

\* Transaction::recipient
recipient(tx) ==
    IF tx.tx_type.kind \in {"Transfer", "ContractCall"}
    THEN Some(tx.tx_type.to) ELSE None

----------------------------------------------------------------------------
(* merkle.rs: MerkleTree.  nodes is the flat array, indexed from 0 *)

RECURSIVE next_power_of_two(_)
next_power_of_two(n) == IF n <= 1 THEN 1 ELSE 2 * next_power_of_two((n + 1) \div 2)

total_nodes(leaf_count) == 2 * next_power_of_two(leaf_count) - 1

parent_index(index) == (index - 1) \div 2

combine_hashes(left, right) == HashBytes(Field(left) \o Field(right))

\* the for loop of build_tree over one level; st is [panic, nodes] and an
\* index past the end of nodes panics
RECURSIVE BuildLevel(_, _, _, _)
BuildLevel(st, level_start, parent_start, i) ==
    IF st.panic \/ i >= level_start - parent_start THEN st
    ELSE LET left_index == level_start + i * 2
             right_index == left_index + 1
             len == Cardinality(DOMAIN st.nodes)
         IN  IF right_index < len
             THEN BuildLevel(
                      [st EXCEPT !.nodes[parent_start + i] =
                          combine_hashes(st.nodes[left_index], st.nodes[right_index])],
                      level_start, parent_start, i + 1)
             ELSE IF left_index < len
             THEN BuildLevel(
                      [st EXCEPT !.nodes[parent_start + i] = st.nodes[left_index]],
                      level_start, parent_start, i + 1)
             ELSE [st EXCEPT !.panic = TRUE]

RECURSIVE build_tree(_, _)
build_tree(st, level_start) ==
    IF st.panic \/ level_start <= 0 THEN st
    ELSE build_tree(BuildLevel(st, level_start, parent_index(level_start), 0),
                    parent_index(level_start))

\* MerkleTree::new(leaves).root(): [status, root] with status "ok", "err"
\* (no leaves) or "panic"
MerkleRoot(leaves) ==
    IF leaves = <<>> THEN [status |-> "err", root |-> ZeroHash]
    ELSE LET leaf_count == Len(leaves)
             total == total_nodes(leaf_count)
             leaf_start == total - leaf_count
             nodes == [k \in 0..(total - 1) |->
                         IF k >= leaf_start
                         THEN HashBytes(leaves[k - leaf_start + 1])
                         ELSE ZeroHash]
             built == build_tree([panic |-> FALSE, nodes |-> nodes], leaf_start)
         IN  IF built.panic THEN [status |-> "panic", root |-> ZeroHash]
             ELSE [status |-> "ok", root |-> built.nodes[0]]

----------------------------------------------------------------------------
(* block.rs.  A block is [header, transactions] *)

\* gas_limit of the genesis block
GenesisGasLimit == 10000000

SerHeader(h) ==
    <<h.number>> \o Field(h.parent_hash) \o Field(h.transactions_root)
    \o Field(h.state_root)
    \o <<h.timestamp, h.proposer, h.gas_limit, h.gas_used>>
    \o Field(h.extra_data)

\* BlockHeader::hash
HeaderHash(h) == HashBytes(SerHeader(h))

\* Block::hash
BlockHash(block) == HeaderHash(block.header)

RECURSIVE SumGasLimit(_)
SumGasLimit(txs) ==
    IF txs = <<>> THEN 0 ELSE Head(txs).gas_limit + SumGasLimit(Tail(txs))

TxHashes(txs) == [i \in DOMAIN txs |-> TxHash(txs[i])]

\* Block::new, at time now: [status, block]
BlockNew(number, parent_hash, root, proposer, transactions, gas_limit, now) ==
    LET m == MerkleRoot(TxHashes(transactions))
        header == [number |-> number,
                   parent_hash |-> parent_hash,
                   transactions_root |->
                       IF transactions = <<>> THEN ZeroHash ELSE m.root,
                   state_root |-> root,
                   timestamp |-> now,
                   proposer |-> proposer,
                   gas_limit |-> gas_limit,
                   gas_used |-> SumGasLimit(transactions),
                   extra_data |-> <<>>]
    IN  [status |-> IF transactions = <<>> THEN "ok" ELSE m.status,
         block |-> [header |-> header, transactions |-> transactions]]

\* Block::genesis; extra_data is b"Genesis Block"
genesis(genesis_state_root) ==
    [header |-> [number |-> 0,
                 parent_hash |-> ZeroHash,
                 transactions_root |-> ZeroHash,
                 state_root |-> genesis_state_root,
                 timestamp |-> 0,
                 proposer |-> 0,
                 gas_limit |-> GenesisGasLimit,
                 gas_used |-> 0,
                 extra_data |-> <<71, 101, 110, 101, 115, 105, 115, 32,
                                  66, 108, 111, 99, 107>>],
     transactions |-> <<>>]

is_genesis(block) ==
    block.header.number = 0 /\ block.header.parent_hash = ZeroHash

\* BlockHeader::validate
HeaderValidate(h, parent) ==
    /\ h.number = parent.number + 1
    /\ h.parent_hash = HeaderHash(parent)
    /\ ~(h.timestamp <= parent.timestamp)
    /\ ~(h.gas_used > h.gas_limit)

\* Block::validate: "Ok", the error, or "panic"
BlockValidate(block, parent) ==
    IF ~HeaderValidate(block.header, parent.header) THEN "InvalidBlock"
    ELSE IF \E i \in DOMAIN block.transactions :
                ~validate_basic(block.transactions[i])
    THEN "InvalidTransaction"
    ELSE LET tx_hashes == TxHashes(block.transactions)
             m == MerkleRoot(tx_hashes)
         IN  IF tx_hashes # <<>> /\ m.status = "panic" THEN "panic"
             ELSE IF tx_hashes # <<>> /\ m.status = "err" THEN "MerkleError"
             ELSE IF tx_hashes # <<>> /\ m.root # block.header.transactions_root
             THEN "InvalidBlock"
             ELSE IF SumGasLimit(block.transactions) # block.header.gas_used
             THEN "InvalidBlock"
             ELSE "Ok"

----------------------------------------------------------------------------
(* chain.rs: Blockchain::execute_transaction *)

\* gas charged by execute_transaction_type
TxGasUsed == 21000

\* The Account method that execute_transaction_type applies to the sender
\* for the transaction kinds other than Transfer
ApplyToSender(kind, acc, amount) ==
    CASE kind = "Stake" -> stake(acc, amount)
      [] kind = "Unstake" -> unstake(acc, amount)
      [] kind = "DeployLiquidity" -> deploy_liquidity(acc, amount)
      [] kind = "WithdrawLiquidity" -> withdraw_liquidity(acc, amount)
      [] OTHER -> AccOk(acc)

\* state.get_account_mut(address).method(amount): [ok, err, ws]
MutateAccount(ws, address, res(_)) ==
    LET r == get_account_mut(ws, address)
        out == res(r.accounts[address])
    IN  [ok |-> out.ok, err |-> out.err,
         ws |-> [r EXCEPT !.accounts[address] = out.acc]]

\* execute_transaction_type returns [ok, err, ws, receipts]; height is
\* self.height()
execute_transaction_type(ws, rcpts, height, tx) ==
    LET bumped == MutateAccount(ws, tx.from, LAMBDA a : AccOk(increment_nonce(a))).ws
        typed ==
            IF tx.tx_type.kind = "Transfer"
            THEN LET t == transfer(bumped, tx.from, tx.tx_type.to, tx.tx_type.amount)
                 IN  [ok |-> t.ok, err |-> IF t.ok THEN "" ELSE "InsufficientBalance",
                      ws |-> t.ws]
            ELSE MutateAccount(bumped, tx.from,
                     LAMBDA a : ApplyToSender(tx.tx_type.kind, a, tx.tx_type.amount))
        gas_fee == calculate_fee(tx, TxGasUsed)
        charged == MutateAccount(typed.ws, tx.from, LAMBDA a : sub_balance(a, gas_fee))
        receipt == [tx_hash |-> TxHash(tx), block_number |-> height + 1,
                    from |-> tx.from, to |-> recipient(tx),
                    gas_used |-> TxGasUsed, status |-> "Success"]
    IN  IF ~typed.ok
        THEN [ok |-> FALSE, err |-> typed.err, ws |-> typed.ws, receipts |-> rcpts]
        ELSE IF ~charged.ok
        THEN [ok |-> FALSE, err |-> charged.err, ws |-> charged.ws, receipts |-> rcpts]
        ELSE [ok |-> TRUE, err |-> "", ws |-> charged.ws,
              receipts |-> MapInsert(rcpts, TxHash(tx), receipt)]

\* execute_transaction returns [result, ws, receipts, checkpointed]: result
\* is "Ok" or the error, checkpointed tells whether the call got as far as
\* state.checkpoint().  The u64 product gas_limit * gas_price is exact for the
\* values of the model.
Rejected(err, ws, rcpts) ==
    [result |-> err, ws |-> ws, receipts |-> rcpts, checkpointed |-> FALSE]

\* execute_transaction committing where it has to roll back
execute_transaction_commits_failure(ws, rcpts, height, tx) ==
    IF ~validate_basic(tx) THEN Rejected("InvalidTransaction", ws, rcpts)
    ELSE IF tx.nonce # get_nonce(ws, tx.from) THEN Rejected("NonceMismatch", ws, rcpts)
    ELSE IF get_balance(ws, tx.from) < tx.gas_limit * tx.gas_price
    THEN Rejected("InsufficientBalance", ws, rcpts)
    ELSE LET r == execute_transaction_type(checkpoint(ws), rcpts, height, tx)
         IN  [result |-> IF r.ok THEN "Ok" ELSE r.err, ws |-> commit(r.ws),
              receipts |-> r.receipts, checkpointed |-> TRUE]

\* execute_transaction accepting a nonce ahead of the sender's
execute_transaction_accepts_future_nonce(ws, rcpts, height, tx) ==
    IF ~validate_basic(tx) THEN Rejected("InvalidTransaction", ws, rcpts)
    ELSE IF tx.nonce < get_nonce(ws, tx.from) THEN Rejected("NonceMismatch", ws, rcpts)
    ELSE IF get_balance(ws, tx.from) < tx.gas_limit * tx.gas_price
    THEN Rejected("InsufficientBalance", ws, rcpts)
    ELSE LET r == execute_transaction_type(checkpoint(ws), rcpts, height, tx)
         IN  IF r.ok
             THEN [result |-> "Ok", ws |-> commit(r.ws),
                   receipts |-> r.receipts, checkpointed |-> TRUE]
             ELSE [result |-> r.err, ws |-> rollback(r.ws),
                   receipts |-> r.receipts, checkpointed |-> TRUE]

execute_transaction(ws, rcpts, height, tx) ==
    IF ~validate_basic(tx) THEN Rejected("InvalidTransaction", ws, rcpts)
    ELSE IF tx.nonce # get_nonce(ws, tx.from) THEN Rejected("NonceMismatch", ws, rcpts)
    ELSE IF get_balance(ws, tx.from) < tx.gas_limit * tx.gas_price
    THEN Rejected("InsufficientBalance", ws, rcpts)
    ELSE LET r == execute_transaction_type(checkpoint(ws), rcpts, height, tx)
         IN  IF r.ok
             THEN [result |-> "Ok", ws |-> commit(r.ws),
                   receipts |-> r.receipts, checkpointed |-> TRUE]
             ELSE [result |-> r.err, ws |-> rollback(r.ws),
                   receipts |-> r.receipts, checkpointed |-> TRUE]

----------------------------------------------------------------------------
(* chain.rs: Blockchain::new, height, add_block *)

\* Blockchain::new(genesis_block): the fields of the new chain
BlockchainNew(genesis_block) ==
    [blocks |-> MapInsert(EmptyMap, BlockHash(genesis_block), genesis_block),
     block_by_number |-> MapInsert(EmptyMap, 0, BlockHash(genesis_block)),
     head |-> BlockHash(genesis_block),
     genesis |-> BlockHash(genesis_block),
     state |-> WorldStateNew,
     receipts |-> EmptyMap]

\* Blockchain::height
height(blks, hd) == blks[hd].header.number

\* add_block storing the block before it compares the state roots
add_block_stores_before_root_check(blks, by_number, hd, ws, block) ==
    LET keep(result, detail) ==
            [result |-> result, detail |-> detail, blocks |-> blks,
             block_by_number |-> by_number, head |-> hd]
        valid == BlockValidate(block, blks[block.header.parent_hash])
        stored == [result |-> "Ok", detail |-> "",
                   blocks |-> MapInsert(blks, BlockHash(block), block),
                   block_by_number |->
                       MapInsert(by_number, block.header.number, BlockHash(block)),
                   head |-> BlockHash(block)]
    IN  IF block.header.parent_hash \notin DOMAIN blks
        THEN keep("BlockNotFound", "")
        ELSE IF valid # "Ok" THEN keep(valid, "validate")
        ELSE IF block.header.state_root # state_root(ws)
        THEN [stored EXCEPT !.result = "InvalidBlock",
                            !.detail = "State root mismatch"]
        ELSE stored

\* Blockchain::add_block returns [result, detail, blocks, block_by_number,
\* head]; detail tells the InvalidBlock of the state root from Block::validate's
add_block(blks, by_number, hd, ws, block) ==
    LET keep(result, detail) ==
            [result |-> result, detail |-> detail, blocks |-> blks,
             block_by_number |-> by_number, head |-> hd]
        valid == BlockValidate(block, blks[block.header.parent_hash])
    IN  IF block.header.parent_hash \notin DOMAIN blks
        THEN keep("BlockNotFound", "")
        ELSE IF valid # "Ok" THEN keep(valid, "validate")
        ELSE IF block.header.state_root # state_root(ws)
        THEN keep("InvalidBlock", "State root mismatch")
        ELSE [result |-> "Ok", detail |-> "",
              blocks |-> MapInsert(blks, BlockHash(block), block),
              block_by_number |->
                  MapInsert(by_number, block.header.number, BlockHash(block)),
              head |-> BlockHash(block)]

\* the loop of verify_chain from height i, current being the block below
RECURSIVE VerifyFrom(_, _, _, _, _)
VerifyFrom(blks, by_number, current, i, top) ==
    IF i > top THEN "Ok"
    ELSE IF i \notin DOMAIN by_number \/ by_number[i] \notin DOMAIN blks
    THEN "InvalidChain"
    ELSE LET next == blks[by_number[i]]
             valid == BlockValidate(next, current)
         IN  IF valid # "Ok" THEN valid
             ELSE VerifyFrom(blks, by_number, next, i + 1, top)

\* Blockchain::verify_chain: "Ok", the error, or "panic"
verify_chain(blks, by_number, hd, genesis_hash) ==
    VerifyFrom(blks, by_number, blks[genesis_hash], 1, height(blks, hd))

----------------------------------------------------------------------------
(* fork.rs: ForkResolver over a block store Hash -> Block *)

\* the number of visited blocks after which find_common_ancestor gives up
AncestorSearchCap == 10000

\* the loop of find_common_ancestor, entered with the two cursors and the two
\* visited sets; the result is an Option<Hash>
RECURSIVE AncestorLoop(_, _, _, _, _, _)
AncestorLoop(chain_a, chain_b, current_a, current_b, visited_a, visited_b) ==
    IF current_a \in visited_b THEN Some(current_a)
    ELSE IF current_b \in visited_a THEN Some(current_b)
    ELSE LET seen_a == visited_a \cup {current_a}
             seen_b == visited_b \cup {current_b}
         IN  IF current_a \notin DOMAIN chain_a \/ current_b \notin DOMAIN chain_b
             THEN None
             ELSE IF is_genesis(chain_a[current_a]) /\ is_genesis(chain_b[current_b])
             THEN Some(current_a)
             ELSE IF \/ Cardinality(seen_a) > AncestorSearchCap
                     \/ Cardinality(seen_b) > AncestorSearchCap
             THEN None
             ELSE AncestorLoop(chain_a, chain_b,
                               chain_a[current_a].header.parent_hash,
                               chain_b[current_b].header.parent_hash,
                               seen_a, seen_b)

\* ForkResolver::find_common_ancestor
find_common_ancestor(chain_a, chain_b, head_a, head_b) ==
    AncestorLoop(chain_a, chain_b, head_a, head_b, {}, {})

\* RevertWalk that refuses a walk as soon as it reaches max_reorg_depth
RECURSIVE RevertWalk_off_by_one(_, _, _, _, _)
RevertWalk_off_by_one(blks, current, common_ancestor, revert, max_reorg_depth) ==
    IF current = common_ancestor THEN [result |-> "Ok", revert |-> revert]
    ELSE IF current \notin DOMAIN blks
    THEN [result |-> "BlockNotFound", revert |-> revert]
    ELSE IF Len(revert) + 1 >= max_reorg_depth
    THEN [result |-> "ReorgTooDeep", revert |-> Append(revert, blks[current])]
    ELSE RevertWalk_off_by_one(blks, blks[current].header.parent_hash,
                               common_ancestor, Append(revert, blks[current]),
                               max_reorg_depth)

\* the first loop of calculate_reorg_path, from current down to the common
\* ancestor: [result, revert]
RECURSIVE RevertWalk(_, _, _, _, _)
RevertWalk(blks, current, common_ancestor, revert, max_reorg_depth) ==
    IF current = common_ancestor THEN [result |-> "Ok", revert |-> revert]
    ELSE IF current \notin DOMAIN blks
    THEN [result |-> "BlockNotFound", revert |-> revert]
    ELSE IF Len(revert) + 1 > max_reorg_depth
    THEN [result |-> "ReorgTooDeep", revert |-> Append(revert, blks[current])]
    ELSE RevertWalk(blks, blks[current].header.parent_hash, common_ancestor,
                    Append(revert, blks[current]), max_reorg_depth)

\* the second loop of calculate_reorg_path: [result, apply], apply not yet
\* reversed
RECURSIVE ApplyWalk(_, _, _, _)
ApplyWalk(blks, current, common_ancestor, apply) ==
    IF current = common_ancestor THEN [result |-> "Ok", apply |-> apply]
    ELSE IF current \notin DOMAIN blks
    THEN [result |-> "BlockNotFound", apply |-> apply]
    ELSE ApplyWalk(blks, blks[current].header.parent_hash, common_ancestor,
                   Append(apply, blks[current]))

\* Vec::reverse
Reverse(s) == [i \in DOMAIN s |-> s[Len(s) + 1 - i]]

\* the result of calculate_reorg_path when it fails with the error err;
\* depth is the depth the error carries
ReorgFailed(err, depth) ==
    [result |-> err, common_ancestor |-> ZeroHash, revert_blocks |-> <<>>,
     apply_blocks |-> <<>>, depth |-> depth]

\* calculate_reorg_path that leaves apply in the order of its walk
calculate_reorg_path_unreversed(blks, old_head, new_head, max_reorg_depth) ==
    LET found == find_common_ancestor(blks, blks, old_head, new_head)
        common_ancestor == found[1]
        reverted == RevertWalk(blks, old_head, common_ancestor, <<>>, max_reorg_depth)
        applied == ApplyWalk(blks, new_head, common_ancestor, <<>>)
    IN  IF found = None THEN ReorgFailed("ForkDetected", 0)
        ELSE IF reverted.result # "Ok"
        THEN ReorgFailed(reverted.result, Len(reverted.revert))
        ELSE IF applied.result # "Ok" THEN ReorgFailed(applied.result, 0)
        ELSE [result |-> "Ok",
              common_ancestor |-> common_ancestor,
              revert_blocks |-> reverted.revert,
              apply_blocks |-> applied.apply,
              depth |-> Len(reverted.revert)]

\* ForkResolver::calculate_reorg_path of a resolver with max_reorg_depth:
\* [result, common_ancestor, revert_blocks, apply_blocks, depth]
calculate_reorg_path(blks, old_head, new_head, max_reorg_depth) ==
    LET found == find_common_ancestor(blks, blks, old_head, new_head)
        common_ancestor == found[1]
        reverted == RevertWalk(blks, old_head, common_ancestor, <<>>, max_reorg_depth)
        applied == ApplyWalk(blks, new_head, common_ancestor, <<>>)
    IN  IF found = None THEN ReorgFailed("ForkDetected", 0)
        ELSE IF reverted.result # "Ok"
        THEN ReorgFailed(reverted.result, Len(reverted.revert))
        ELSE IF applied.result # "Ok" THEN ReorgFailed(applied.result, 0)
        ELSE [result |-> "Ok",
              common_ancestor |-> common_ancestor,
              revert_blocks |-> reverted.revert,
              apply_blocks |-> Reverse(applied.apply),
              depth |-> Len(reverted.revert)]

\* the length at which record_fork drops the oldest fork
ForkHistoryCap == 100

\* ForkResolver::detect_fork: None when new_block builds on current_head,
\* else the ForkInfo of a fork of length one
detect_fork(current_head, new_block) ==
    IF new_block.header.parent_hash = BlockHash(current_head) THEN None
    ELSE Some([fork_point |-> current_head.header.number,
               fork_hash |-> BlockHash(current_head),
               main_tip |-> BlockHash(current_head),
               fork_tip |-> BlockHash(new_block),
               main_length |-> 0,
               fork_length |-> 1])

\* ForkResolver::record_fork on the fork history
record_fork(fork_history, fork_info) ==
    LET pushed == Append(fork_history, fork_info)
    IN  IF Len(pushed) > ForkHistoryCap THEN Tail(pushed) ELSE pushed

\* ForkResolver::choose_chain: TRUE to switch to the fork chain; the three
\* fork choice rules compare the lengths alike
choose_chain(main_chain, fork_chain) ==
    IF fork_chain = <<>> THEN FALSE ELSE Len(fork_chain) > Len(main_chain)

----------------------------------------------------------------------------
(* mempool.rs: TransactionPool.  A pool value is                           *)
(*   [config, pending, queued, by_hash, by_sender, metrics]                *)
(* and a pool entry is [transaction, status].  Of PoolMetrics the model    *)
(* keeps total_transactions, pending_count and queued_count.               *)

\* u64 holds 0..U64Modulus-1.  The word is 30 bits wide in the model: the
\* values near its top stand for the values near the top of u64.
U64Modulus == 1073741824

PoolNew(cfg) ==
    [config |-> cfg, pending |-> EmptyMap, queued |-> EmptyMap,
     by_hash |-> EmptyMap, by_sender |-> EmptyMap,
     metrics |-> [total_transactions |-> 0, pending_count |-> 0,
                  queued_count |-> 0]]

PoolEntry(tx, status) == [transaction |-> tx, status |-> status]

saturating_sub(a, b) == IF a < b THEN 0 ELSE a - b

remove_from_pending(p, tx_hash, gas_price) ==
    IF gas_price \notin DOMAIN p.pending THEN p
    ELSE LET tx_map == p.pending[gas_price]
             found == tx_hash \in DOMAIN tx_map
             left == MapRemove(tx_map, tx_hash)
             counted == IF found
                        THEN [p EXCEPT !.metrics.pending_count = saturating_sub(@, 1)]
                        ELSE p
         IN  [counted EXCEPT !.pending =
                 IF DOMAIN left = {} THEN MapRemove(@, gas_price)
                 ELSE MapInsert(@, gas_price, left)]

remove_from_queued(p, sender, nonce) ==
    IF sender \notin DOMAIN p.queued THEN p
    ELSE LET nonce_map == p.queued[sender]
             found == nonce \in DOMAIN nonce_map
             left == MapRemove(nonce_map, nonce)
             counted == IF found
                        THEN [p EXCEPT !.metrics.queued_count = saturating_sub(@, 1)]
                        ELSE p
         IN  [counted EXCEPT !.queued =
                 IF DOMAIN left = {} THEN MapRemove(@, sender)
                 ELSE MapInsert(@, sender, left)]

\* TransactionPool::remove; the returned Option<Transaction> is
\* MapGet(p.by_hash, tx_hash)
remove(p, tx_hash) ==
    IF tx_hash \notin DOMAIN p.by_hash THEN p
    ELSE LET tx == p.by_hash[tx_hash]
             unhashed == [p EXCEPT !.by_hash = MapRemove(@, tx_hash)]
             uncounted ==
                 IF tx.from \notin DOMAIN unhashed.by_sender THEN unhashed
                 ELSE IF saturating_sub(unhashed.by_sender[tx.from], 1) = 0
                 THEN [unhashed EXCEPT !.by_sender = MapRemove(@, tx.from)]
                 ELSE [unhashed EXCEPT !.by_sender[tx.from] = saturating_sub(@, 1)]
             unindexed ==
                 remove_from_queued(
                     remove_from_pending(uncounted, tx_hash, tx.gas_price),
                     tx.from, tx.nonce)
         IN  [unindexed EXCEPT !.metrics.total_transactions =
                 Cardinality(DOMAIN unindexed.by_hash)]

\* try_evict_lowest_gas takes the first key of the lowest-priced pending
\* bucket, in the HashMap's iteration order: any key of that bucket
EvictionVictims(p) ==
    IF DOMAIN p.pending = {} THEN {}
    ELSE DOMAIN p.pending[Min(DOMAIN p.pending)]

\* try_evict_lowest_gas reporting an eviction without removing the entry
try_evict_lowest_gas_keeps_entry(p, victim) ==
    [evicted |-> victim \in EvictionVictims(p), p |-> p]

\* try_evict_lowest_gas when the first key is victim: [evicted, p]
try_evict_lowest_gas(p, victim) ==
    IF victim \in EvictionVictims(p)
    THEN [evicted |-> TRUE, p |-> remove(p, victim)]
    ELSE [evicted |-> FALSE, p |-> p]

\* TransactionPool::add storing a transaction whose nonce is behind the
\* sender's as a queued one
add_queues_stale_nonce(p, tx, current_nonce, victim) ==
    LET tx_hash == TxHash(tx)
        full == Cardinality(DOMAIN p.by_hash) >= p.config.max_size
        evict == try_evict_lowest_gas(p, victim)
        room == IF full THEN evict.p ELSE p
        sender_count ==
            IF tx.from \in DOMAIN room.by_sender THEN room.by_sender[tx.from] ELSE 0
        status == IF tx.nonce = current_nonce THEN "Pending" ELSE "Queued"
        entry == PoolEntry(tx, status)
        indexed ==
            IF status = "Pending"
            THEN [room EXCEPT
                    !.pending = MapInsert(@, tx.gas_price,
                        MapInsert(IF tx.gas_price \in DOMAIN @ THEN @[tx.gas_price]
                                  ELSE EmptyMap, tx_hash, entry)),
                    !.metrics.pending_count = @ + 1]
            ELSE [room EXCEPT
                    !.queued = MapInsert(@, tx.from,
                        MapInsert(IF tx.from \in DOMAIN @ THEN @[tx.from]
                                  ELSE EmptyMap, tx.nonce, entry)),
                    !.metrics.queued_count = @ + 1]
        tracked ==
            [indexed EXCEPT
                !.by_hash = MapInsert(@, tx_hash, tx),
                !.by_sender = MapInsert(@, tx.from, sender_count + 1),
                !.metrics.total_transactions =
                    Cardinality(DOMAIN indexed.by_hash \cup {tx_hash})]
    IN  IF ~validate_basic(tx) THEN [result |-> "InvalidTransaction", p |-> p]
        ELSE IF tx_hash \in DOMAIN p.by_hash
        THEN [result |-> "DuplicateTransaction", p |-> p]
        ELSE IF full /\ ~evict.evicted THEN [result |-> "PoolFull", p |-> p]
        ELSE IF sender_count >= room.config.max_per_account
        THEN [result |-> "InvalidTransaction", p |-> room]
        ELSE IF tx.gas_price < room.config.min_gas_price
        THEN [result |-> "InvalidTransaction", p |-> room]
        ELSE [result |-> "Ok", p |-> tracked]

\* TransactionPool::add returns [result, p]; victim is the key that
\* try_evict_lowest_gas finds first, if it is called and finds one
add(p, tx, current_nonce, victim) ==
    LET tx_hash == TxHash(tx)
        full == Cardinality(DOMAIN p.by_hash) >= p.config.max_size
        evict == try_evict_lowest_gas(p, victim)
        room == IF full THEN evict.p ELSE p
        sender_count ==
            IF tx.from \in DOMAIN room.by_sender THEN room.by_sender[tx.from] ELSE 0
        status == IF tx.nonce = current_nonce THEN "Pending" ELSE "Queued"
        entry == PoolEntry(tx, status)
        indexed ==
            IF status = "Pending"
            THEN [room EXCEPT
                    !.pending = MapInsert(@, tx.gas_price,
                        MapInsert(IF tx.gas_price \in DOMAIN @ THEN @[tx.gas_price]
                                  ELSE EmptyMap, tx_hash, entry)),
                    !.metrics.pending_count = @ + 1]
            ELSE [room EXCEPT
                    !.queued = MapInsert(@, tx.from,
                        MapInsert(IF tx.from \in DOMAIN @ THEN @[tx.from]
                                  ELSE EmptyMap, tx.nonce, entry)),
                    !.metrics.queued_count = @ + 1]
        tracked ==
            [indexed EXCEPT
                !.by_hash = MapInsert(@, tx_hash, tx),
                !.by_sender = MapInsert(@, tx.from, sender_count + 1),
                !.metrics.total_transactions =
                    Cardinality(DOMAIN indexed.by_hash \cup {tx_hash})]
    IN  IF ~validate_basic(tx) THEN [result |-> "InvalidTransaction", p |-> p]
        ELSE IF tx_hash \in DOMAIN p.by_hash
        THEN [result |-> "DuplicateTransaction", p |-> p]
        ELSE IF full /\ ~evict.evicted THEN [result |-> "PoolFull", p |-> p]
        ELSE IF sender_count >= room.config.max_per_account
        THEN [result |-> "InvalidTransaction", p |-> room]
        ELSE IF tx.gas_price < room.config.min_gas_price
        THEN [result |-> "InvalidTransaction", p |-> room]
        ELSE IF tx.nonce < current_nonce THEN [result |-> "NonceMismatch", p |-> room]
        ELSE [result |-> "Ok", p |-> tracked]

\* promote_queued: the lowest-nonce queued entry of every sender becomes
\* pending
RECURSIVE PromoteSenders(_, _)
PromoteSenders(p, senders) ==
    IF senders = {} THEN p
    ELSE LET sender == Min(senders)
             nonce == Min(DOMAIN p.queued[sender])
             entry == p.queued[sender][nonce]
             tx_hash == TxHash(entry.transaction)
             gas_price == entry.transaction.gas_price
             \* nonce_map.remove(&nonce): the emptied map stays in queued
             moved ==
                 [p EXCEPT
                    !.queued[sender] = MapRemove(@, nonce),
                    !.pending = MapInsert(@, gas_price,
                        MapInsert(IF gas_price \in DOMAIN @ THEN @[gas_price]
                                  ELSE EmptyMap,
                                  tx_hash, PoolEntry(entry.transaction, "Pending"))),
                    !.metrics.pending_count = @ + 1,
                    !.metrics.queued_count = saturating_sub(@, 1)]
         IN  PromoteSenders(moved, senders \ {sender})

promote_queued(p) ==
    PromoteSenders(p, {sender \in DOMAIN p.queued : DOMAIN p.queued[sender] # {}})

RECURSIVE RemoveAll(_, _)
RemoveAll(p, transactions) ==
    IF transactions = <<>> THEN p
    ELSE RemoveAll(remove(p, TxHash(Head(transactions))), Tail(transactions))

\* TransactionPool::remove_included
remove_included(p, transactions) == promote_queued(RemoveAll(p, transactions))

Max(S) == CHOOSE x \in S : \A y \in S : x >= y

\* the keys of a BTreeMap from the last to the first: iter().rev()
RECURSIVE Descending(_)
Descending(keys) ==
    IF keys = {} THEN <<>> ELSE <<Max(keys)>> \o Descending(keys \ {Max(keys)})

\* the keys of a BTreeMap from the first to the last: iter()
RECURSIVE Ascending(_)
Ascending(keys) ==
    IF keys = {} THEN <<>> ELSE <<Min(keys)>> \o Ascending(keys \ {Min(keys)})

\* the orders in which a HashMap with these keys can be iterated
Orders(keys) ==
    { q \in [1..Cardinality(keys) -> keys] : \A k \in keys : \E i \in DOMAIN q : q[i] = k }

\* the entries of pending in the order get_pending visits them, when the
\* prices are visited in the order prices and the bucket of a price in the
\* order walk[price]
RECURSIVE Visited(_, _, _)
Visited(p, prices, walk) ==
    IF prices = <<>> THEN <<>>
    ELSE [i \in DOMAIN walk[Head(prices)] |->
             p.pending[Head(prices)][walk[Head(prices)][i]]]
         \o Visited(p, Tail(prices), walk)

\* the loop body of get_pending over the visited entries; st is
\* [status, transactions, total_gas] and status "run" while the loop runs.
\* total_gas + gas_limit is a u64 sum: with overflow checks it panics past
\* the word, without them it wraps.
RECURSIVE Select(_, _, _, _, _)
Select(st, entries, max_gas, max_count, overflow_checks) ==
    IF st.status # "run" \/ entries = <<>> THEN st
    ELSE LET gas_limit == Head(entries).transaction.gas_limit
             sum == st.total_gas + gas_limit
         IN  IF sum >= U64Modulus /\ overflow_checks
             THEN [st EXCEPT !.status = "panic"]
             ELSE IF sum % U64Modulus > max_gas
             THEN Select(st, Tail(entries), max_gas, max_count, overflow_checks)
             ELSE IF Len(st.transactions) >= max_count
             THEN [st EXCEPT !.status = "returned"]
             ELSE Select([st EXCEPT
                             !.total_gas = sum % U64Modulus,
                             !.transactions = Append(@, Head(entries).transaction)],
                         Tail(entries), max_gas, max_count, overflow_checks)

\* get_pending visiting the prices from the lowest
get_pending_lowest_first(p, max_gas, max_count, walk, overflow_checks) ==
    Select([status |-> "run", transactions |-> <<>>, total_gas |-> 0],
           Visited(p, Ascending(DOMAIN p.pending), walk),
           max_gas, max_count, overflow_checks)

\* TransactionPool::get_pending: [status, transactions, total_gas] with status
\* "panic", or "run" or "returned" for the two return statements
get_pending(p, max_gas, max_count, walk, overflow_checks) ==
    Select([status |-> "run", transactions |-> <<>>, total_gas |-> 0],
           Visited(p, Descending(DOMAIN p.pending), walk),
           max_gas, max_count, overflow_checks)

----------------------------------------------------------------------------
(* consensus: slashing.rs, validator.rs, poas.rs.  A ValidatorInfo is      *)
(* [address, stake, status]; a SlashingManager is                          *)
(*   [slashing_history, offense_count, insurance_fund, total_slashed,      *)
(*    total_burned];                                                       *)
(* a PoASConsensus is                                                      *)
(*   [config, validators, slashing, fork_history, finality_checkpoints,    *)
(*    fork_events, highest_justified, fork_frequency, total_reorg_depth,   *)
(*    max_reorg_depth_observed].                                           *)
(* Amounts are BigUint in the source and integers here; the readings of    *)
(* the wall clock (penalty timestamps, finality_times) are left out.       *)

\* ValidatorInfo::new
ValidatorInfoNew(address, stake_amount) ==
    [address |-> address, stake |-> stake_amount, liquidity_deployed |-> 0,
     utility_score |-> 0, status |-> "Active", uptime |-> 10000,
     blocks_produced |-> 0, blocks_missed |-> 0]

\* ValidatorInfo::is_active
is_active(validator) == validator.status = "Active"

\* ValidatorInfo::can_produce_blocks
can_produce_blocks(validator) == is_active(validator) /\ validator.stake # 0

\* ValidatorInfo::update_uptime; uptime is the share of produced blocks in
\* hundredths of a percent
update_uptime(validator, produced) ==
    LET counted == IF produced
                   THEN [validator EXCEPT !.blocks_produced = @ + 1]
                   ELSE [validator EXCEPT !.blocks_missed = @ + 1]
        total == counted.blocks_produced + counted.blocks_missed
    IN  IF total > 0
        THEN [counted EXCEPT !.uptime = (counted.blocks_produced * 10000) \div total]
        ELSE counted

\* a * b / d rounded toward zero
MulDiv(a, b, d) == (a \div d) * b + ((a % d) * b) \div d

\* ValidatorInfo::efficiency_score in ten-thousandths: the deployed share of
\* the stake
efficiency_score(validator) ==
    IF validator.stake = 0 THEN 0
    ELSE ((validator.liquidity_deployed * 10000) \div validator.stake) % U64Modulus

\* ValidatorSelector::calculate_weight:
\*   stake * (1 + utility/10) * reliability * (1 + efficiency) as u64
\* with the stake read from its lowest 64-bit digit; the factors are applied
\* one after the other
calculate_weight(validator) ==
    IF ~can_produce_blocks(validator) THEN 0
    ELSE MulDiv(MulDiv(MulDiv(validator.stake % U64Modulus,
                              10000 + validator.utility_score, 10000),
                       validator.uptime, 10000),
                10000 + efficiency_score(validator), 10000)

\* ValidatorSelector::calculate_weights: the validators of a list with a
\* weight above zero, in the order of the list, as [address, weight]
calculate_weights(validators) ==
    LET weighed == [i \in DOMAIN validators |->
                       [address |-> validators[i].address,
                        weight |-> calculate_weight(validators[i])]]
        positive(w) == w.weight > 0
    IN  SelectSeq(weighed, positive)

\* the sum of the weights from index i on
RECURSIVE SumWeights(_, _)
SumWeights(weights, i) ==
    IF i > Len(weights) THEN 0 ELSE weights[i].weight + SumWeights(weights, i + 1)

\* SlotScan that takes a validator as soon as the accumulated weight reaches
\* the selection point
RECURSIVE SlotScan_inclusive(_, _, _, _, _)
SlotScan_inclusive(weights, selection, accumulated, i, overflow_checks) ==
    IF i > Len(weights) THEN [result |-> "Ok", address |-> weights[1].address]
    ELSE LET sum == accumulated + weights[i].weight
         IN  IF sum >= U64Modulus /\ overflow_checks
             THEN [result |-> "panic", address |-> 0]
             ELSE IF selection <= sum % U64Modulus
             THEN [result |-> "Ok", address |-> weights[i].address]
             ELSE SlotScan_inclusive(weights, selection, sum % U64Modulus,
                                     i + 1, overflow_checks)

\* the scan of select_for_slot from index i with the weight accumulated so
\* far: [result, address].  overflow_checks tells whether the build panics
\* on an overflowing addition or wraps.
RECURSIVE SlotScan(_, _, _, _, _)
SlotScan(weights, selection, accumulated, i, overflow_checks) ==
    IF i > Len(weights) THEN [result |-> "Ok", address |-> weights[1].address]
    ELSE LET sum == accumulated + weights[i].weight
         IN  IF sum >= U64Modulus /\ overflow_checks
             THEN [result |-> "panic", address |-> 0]
             ELSE IF selection < sum % U64Modulus
             THEN [result |-> "Ok", address |-> weights[i].address]
             ELSE SlotScan(weights, selection, sum % U64Modulus, i + 1,
                           overflow_checks)

\* ValidatorSelector::select_for_slot on a list of validators:
\* [result, address]
select_for_slot(validators, slot, overflow_checks) ==
    LET weights == calculate_weights(validators)
        sum == SumWeights(weights, 1)
        total_weight == sum % U64Modulus
    IN  IF validators = <<>> \/ weights = <<>>
        THEN [result |-> "SelectionError", address |-> 0]
        ELSE IF sum >= U64Modulus /\ overflow_checks
        THEN [result |-> "panic", address |-> 0]
        ELSE IF total_weight = 0
        THEN [result |-> "SelectionError", address |-> 0]
        ELSE SlotScan(weights, slot % total_weight, 0, 1, overflow_checks)

\* ValidatorSet::active_validators: the active validators in the order in
\* which the map yields its values; order lists the keys of the map
active_validators(validators, order) ==
    LET listed == [i \in DOMAIN order |-> validators[order[i]]]
    IN  SelectSeq(listed, is_active)

\* ValidatorSet::update_status: [result, validators]
update_status(validators, address, status) ==
    IF address \notin DOMAIN validators
    THEN [result |-> "ValidatorNotFound", validators |-> validators]
    ELSE [result |-> "Ok",
          validators |-> [validators EXCEPT ![address].status = status]]

\* SlashingManager::new
SlashingManagerNew ==
    [slashing_history |-> <<>>, offense_count |-> EmptyMap,
     insurance_fund |-> 0, total_slashed |-> 0, total_burned |-> 0]

\* SlashingCondition::base_penalty_rate, in basis points; a condition is
\* [kind, days]
base_penalty_rate(condition) ==
    CASE condition.kind = "DoubleSigning" -> 500
      [] condition.kind = "ExtendedDowntime" ->
            IF 10 * condition.days < 10000 THEN 10 * condition.days ELSE 10000
      [] condition.kind = "LiquidityMismanagement" -> 1000
      [] condition.kind = "GovernanceAttack" -> 10000

\* SlashingCondition::severity_multiplier, counted in halves: 1.0 is 2 and
\* the cap 3.0 is 6
severity_multiplier(previous_offenses) ==
    IF 2 + previous_offenses < 6 THEN 2 + previous_offenses ELSE 6

\* SlashingCondition::is_capital_offense
is_capital_offense(condition) == condition.kind = "GovernanceAttack"

\* SlashingManager::get_offense_count
get_offense_count(m, address) ==
    IF address \in DOMAIN m.offense_count THEN m.offense_count[address] ELSE 0

\* SlashingManager::calculate_slash_amount; stake_u64 is the lowest 64-bit
\* digit of the stake, and each `as u64` rounds toward zero.  final_slash
\* is not below stake_u64 when base_slash * multiplier exceeds twice
\* stake_u64, and is base_slash * multiplier / 2 otherwise.
calculate_slash_amount(m, validator, condition) ==
    LET base_rate == base_penalty_rate(condition)
        multiplier == severity_multiplier(get_offense_count(m, validator.address))
        stake_u64 == validator.stake % U64Modulus
        base_slash == MulDiv(stake_u64, base_rate, 10000)
    IN  IF base_slash > (2 * stake_u64) \div multiplier THEN stake_u64
        ELSE MulDiv(base_slash, multiplier, 2)

\* SlashingDistribution::from_slashed_amount
from_slashed_amount(amount) ==
    [burn |-> (amount * 50) \div 100,
     insurance |-> (amount * 30) \div 100,
     whistleblower |-> (amount * 20) \div 100]

\* SlashingManager::slash_validator: [result, slashing, validator, penalty]
slash_validator(m, validator, condition, evidence_hash) ==
    LET slash_amount == calculate_slash_amount(m, validator, condition)
        previous_offenses == get_offense_count(m, validator.address)
        penalty == [validator |-> validator.address,
                    condition |-> condition,
                    amount |-> slash_amount,
                    previous_offenses |-> previous_offenses,
                    evidence_hash |-> evidence_hash]
        distribution == from_slashed_amount(slash_amount)
    IN  IF validator.stake < slash_amount
        THEN [result |-> "SlashingError", slashing |-> m,
              validator |-> validator, penalty |-> None]
        ELSE [result |-> "Ok",
              slashing |->
                  [slashing_history |-> Append(m.slashing_history, penalty),
                   offense_count |-> MapInsert(m.offense_count, validator.address,
                                               previous_offenses + 1),
                   insurance_fund |-> m.insurance_fund + distribution.insurance,
                   total_slashed |-> m.total_slashed + slash_amount,
                   total_burned |-> m.total_burned + distribution.burn],
              validator |->
                  [validator EXCEPT
                      !.stake = validator.stake - slash_amount,
                      !.status = IF is_capital_offense(condition)
                                 THEN "Slashed" ELSE validator.status],
              penalty |-> Some(penalty)]

\* ValidatorSet::register on the validators map: [result, validators]
register(validators, min_stake, address, stake_amount) ==
    IF address \in DOMAIN validators
    THEN [result |-> "ValidatorAlreadyExists", validators |-> validators]
    ELSE IF stake_amount < min_stake
    THEN [result |-> "InsufficientStake", validators |-> validators]
    ELSE [result |-> "Ok",
          validators |-> MapInsert(validators, address,
                                   ValidatorInfoNew(address, stake_amount))]

\* PoASConsensus::new; a config holds the fields of ConsensusConfig that the
\* methods called on the consensus read
PoASConsensusNew(cfg) ==
    [config |-> cfg,
     validators |-> EmptyMap,
     slashing |-> SlashingManagerNew,
     fork_history |-> <<>>,
     finality_checkpoints |-> {},
     fork_events |-> <<>>,
     highest_justified |-> None,
     fork_frequency |-> 0,
     total_reorg_depth |-> 0,
     max_reorg_depth_observed |-> 0]

\* PoASConsensus::register_validator: [result, consensus]
register_validator(c, address, stake_amount) ==
    LET r == register(c.validators, c.config.min_stake, address, stake_amount)
    IN  IF Cardinality(DOMAIN c.validators) >= c.config.max_validator_count
        THEN [result |-> "ValidatorError", consensus |-> c]
        ELSE [result |-> r.result,
              consensus |-> [c EXCEPT !.validators = r.validators]]

\* PoASConsensus::update_justified_checkpoint
update_justified_checkpoint(c, block_number) ==
    LET highest == IF c.highest_justified = None THEN 0 ELSE c.highest_justified[1]
    IN  [c EXCEPT
            !.finality_checkpoints = @ \cup {block_number},
            !.highest_justified =
                Some(IF highest > block_number THEN highest ELSE block_number)]

\* PoASConsensus::select_proposer: [result, address]; order is the order in
\* which the validator map yields its values
select_proposer(c, slot, order, overflow_checks) ==
    LET active == active_validators(c.validators, order)
    IN  IF active = <<>> THEN [result |-> "SelectionError", address |-> 0]
        ELSE select_for_slot(active, slot, overflow_checks)

\* validate_block that does not look at the block time
validate_block_any_time(c, block, parent) ==
    LET checked == BlockValidate(block, parent)
        proposer == block.header.proposer
        fork == detect_fork(parent, block)
    IN  IF checked = "panic" THEN "panic"
        ELSE IF checked # "Ok" THEN "ValidationError"
        ELSE IF proposer \notin DOMAIN c.validators THEN "ValidatorNotFound"
        ELSE IF ~can_produce_blocks(c.validators[proposer]) THEN "ValidationError"
        ELSE IF /\ c.config.enable_fork_detection
                /\ fork # None
                /\ fork[1].fork_length > c.config.max_reorg_depth
        THEN "ReorgTooDeep"
        ELSE "Ok"

\* PoASConsensus::validate_block: "Ok", the error, or "panic"; the config
\* fields read are block_time, enable_fork_detection and max_reorg_depth
validate_block(c, block, parent) ==
    LET checked == BlockValidate(block, parent)
        proposer == block.header.proposer
        expected_time == parent.header.timestamp + c.config.block_time
        time_diff == IF block.header.timestamp > expected_time
                     THEN block.header.timestamp - expected_time
                     ELSE expected_time - block.header.timestamp
        fork == detect_fork(parent, block)
    IN  IF checked = "panic" THEN "panic"
        ELSE IF checked # "Ok" THEN "ValidationError"
        ELSE IF proposer \notin DOMAIN c.validators THEN "ValidatorNotFound"
        ELSE IF ~can_produce_blocks(c.validators[proposer]) THEN "ValidationError"
        ELSE IF time_diff > 2 THEN "ValidationError"
        ELSE IF /\ c.config.enable_fork_detection
                /\ fork # None
                /\ fork[1].fork_length > c.config.max_reorg_depth
        THEN "ReorgTooDeep"
        ELSE "Ok"

\* PoASConsensus::is_finalized
is_finalized(c, block_number, head_number) ==
    IF c.highest_justified # None
    THEN block_number <= c.highest_justified[1]
    ELSE head_number >= block_number + c.config.finality_blocks

\* the first statement of apply_reorg: the number of the common ancestor as
\* an Option, None for the empty path
common_ancestor_number(reorg) ==
    IF reorg.revert_blocks # <<>>
    THEN Some(saturating_sub(
             Min({reorg.revert_blocks[i].header.number :
                     i \in DOMAIN reorg.revert_blocks}), 1))
    ELSE IF reorg.apply_blocks # <<>>
    THEN Some(saturating_sub(reorg.apply_blocks[1].header.number, 1))
    ELSE None

\* the loops of apply_reorg over the apply blocks from index i and, for the
\* apply block i, over the revert blocks from index j: [result, consensus].
\* The first slashing error ends the loops and keeps what was slashed before.
RECURSIVE DoubleSignLoop(_, _, _, _)
DoubleSignLoop(c, reorg, i, j) ==
    IF i > Len(reorg.apply_blocks) THEN [result |-> "Ok", consensus |-> c]
    ELSE IF j > Len(reorg.revert_blocks) THEN DoubleSignLoop(c, reorg, i + 1, 1)
    ELSE LET a == reorg.apply_blocks[i]
             r == reorg.revert_blocks[j]
             proposer == a.header.proposer
             slashed == slash_validator(c.slashing, c.validators[proposer],
                                        [kind |-> "DoubleSigning", days |-> 0],
                                        Some(BlockHash(a)))
         IN  IF /\ a.header.number = r.header.number
                /\ a.header.proposer = r.header.proposer
                /\ c.config.slash_for_wrong_fork
                /\ proposer \in DOMAIN c.validators
             THEN IF slashed.result # "Ok"
                  THEN [result |-> slashed.result, consensus |-> c]
                  ELSE DoubleSignLoop(
                           [c EXCEPT !.slashing = slashed.slashing,
                                     !.validators[proposer] = slashed.validator],
                           reorg, i, j + 1)
             ELSE DoubleSignLoop(c, reorg, i, j + 1)

\* apply_reorg that skips the comparison with the justified checkpoint
apply_reorg_ignores_justified(c, reorg, persist) ==
    LET number == common_ancestor_number(reorg)
        looped == DoubleSignLoop(c, reorg, 1, 1)
        d == looped.consensus
        fork_info ==
            [fork_point |-> number[1],
             fork_hash |-> reorg.common_ancestor,
             main_tip |-> IF reorg.revert_blocks # <<>>
                          THEN BlockHash(reorg.revert_blocks[1])
                          ELSE reorg.common_ancestor,
             fork_tip |-> IF reorg.apply_blocks # <<>>
                          THEN BlockHash(Last(reorg.apply_blocks))
                          ELSE reorg.common_ancestor,
             main_length |-> Len(reorg.revert_blocks),
             fork_length |-> Len(reorg.apply_blocks)]
        recorded ==
            [d EXCEPT
                !.fork_history = record_fork(@, fork_info),
                !.fork_events = Append(@, <<number[1], "resolved">>),
                !.fork_frequency = @ + 1,
                !.total_reorg_depth = @ + reorg.depth,
                !.max_reorg_depth_observed =
                    IF reorg.depth > @ THEN reorg.depth ELSE @]
        resolution == IF choose_chain(reorg.revert_blocks, reorg.apply_blocks)
                      THEN "fork_chain" ELSE "main_chain"
    IN  IF number = None
        THEN [result |-> "ValidationError", consensus |-> c, resolution |-> "none"]
        ELSE IF looped.result # "Ok"
        THEN [result |-> looped.result, consensus |-> d, resolution |-> "none"]
        ELSE IF persist = "Err"
        THEN [result |-> "PersistError", consensus |-> recorded,
              resolution |-> resolution]
        ELSE [result |-> "Ok", consensus |-> recorded, resolution |-> resolution]

\* PoASConsensus::apply_reorg: [result, consensus, resolution]; persist is "None" when
\* no callback is given, and "Ok" or "Err" for what the callback returns
apply_reorg(c, reorg, persist) ==
    LET number == common_ancestor_number(reorg)
        looped == DoubleSignLoop(c, reorg, 1, 1)
        d == looped.consensus
        fork_info ==
            [fork_point |-> number[1],
             fork_hash |-> reorg.common_ancestor,
             main_tip |-> IF reorg.revert_blocks # <<>>
                          THEN BlockHash(reorg.revert_blocks[1])
                          ELSE reorg.common_ancestor,
             fork_tip |-> IF reorg.apply_blocks # <<>>
                          THEN BlockHash(Last(reorg.apply_blocks))
                          ELSE reorg.common_ancestor,
             main_length |-> Len(reorg.revert_blocks),
             fork_length |-> Len(reorg.apply_blocks)]
        recorded ==
            [d EXCEPT
                !.fork_history = record_fork(@, fork_info),
                !.fork_events = Append(@, <<number[1], "resolved">>),
                !.fork_frequency = @ + 1,
                !.total_reorg_depth = @ + reorg.depth,
                !.max_reorg_depth_observed =
                    IF reorg.depth > @ THEN reorg.depth ELSE @]
        resolution == IF choose_chain(reorg.revert_blocks, reorg.apply_blocks)
                      THEN "fork_chain" ELSE "main_chain"
    IN  IF number = None
        THEN [result |-> "ValidationError", consensus |-> c, resolution |-> "none"]
        ELSE IF c.highest_justified # None /\ number[1] < c.highest_justified[1]
        THEN [result |-> "ReorgTooDeep", consensus |-> c, resolution |-> "none"]
        ELSE IF looped.result # "Ok"
        THEN [result |-> looped.result, consensus |-> d, resolution |-> "none"]
        ELSE IF persist = "Err"
        THEN [result |-> "PersistError", consensus |-> recorded,
              resolution |-> resolution]
        ELSE [result |-> "Ok", consensus |-> recorded, resolution |-> resolution]

----------------------------------------------------------------------------
(* node/src/runtime.rs: block production *)

NodeBlockGasLimit == 8000000   \* block_gas_limit of Node::produce_block
NodeMaxTxCount == 1000         \* max_tx_count of Node::produce_block

\* the loop of Node::produce_block over the selected transactions; st is
\* [status, transactions, total_gas], and total_gas + gas is a u64 sum
RECURSIVE ValidTxs(_, _, _)
ValidTxs(st, txs, overflow_checks) ==
    IF st.status # "run" \/ txs = <<>> THEN st
    ELSE LET sum == st.total_gas + Head(txs).gas_limit
         IN  IF sum >= U64Modulus /\ overflow_checks
             THEN [st EXCEPT !.status = "panic"]
             ELSE IF sum % U64Modulus <= NodeBlockGasLimit
             THEN ValidTxs([st EXCEPT !.total_gas = sum % U64Modulus,
                                      !.transactions = Append(@, Head(txs))],
                           Tail(txs), overflow_checks)
             ELSE ValidTxs(st, Tail(txs), overflow_checks)

\* Node::produce_block on the mempool p and the chain (chain_blocks, chain_head,
\* ws): [result, block, p].  It takes read locks only: the mempool it leaves
\* is the mempool it found.
node_produce_block(p, chain_blocks, chain_head, ws, walk, overflow_checks, now) ==
    LET selected == get_pending(p, NodeBlockGasLimit, NodeMaxTxCount, walk,
                                overflow_checks)
        valid == ValidTxs([status |-> "run", transactions |-> <<>>, total_gas |-> 0],
                          selected.transactions, overflow_checks)
        parent == chain_blocks[chain_head]
        made == BlockNew(parent.header.number + 1, BlockHash(parent),
                         state_root(ws), 0, valid.transactions,
                         NodeBlockGasLimit, now)
    IN  IF selected.status = "panic" \/ valid.status = "panic"
        THEN [result |-> "panic", block |-> parent, p |-> p]
        ELSE IF made.status # "ok"
        THEN [result |-> made.status, block |-> parent, p |-> p]
        ELSE [result |-> "Ok", block |-> made.block, p |-> p]

----------------------------------------------------------------------------
(* poas.rs: block production *)

ProposeMaxTxCount == 1000      \* the count given to get_pending by produce_block

\* PoASConsensus::verify_chain_canonical
verify_chain_canonical(c, head_hash) ==
    ~\E i \in DOMAIN c.fork_history :
        /\ c.fork_history[i].fork_tip = head_hash
        /\ c.fork_history[i].fork_length <= c.fork_history[i].main_length

\* the transactions of txs that pass validate_basic
ValidOnly(txs) == SelectSeq(txs, LAMBDA tx : validate_basic(tx))

\* PoASConsensus::produce_block on the mempool p: [result, block, consensus,
\* p].  The state root of the block is Hash::zero(); the proposer's
\* blocks_produced is raised by the method and again by update_uptime.
produce_block(c, parent, proposer, p, walk, overflow_checks, now) ==
    LET max_gas == parent.header.gas_limit
        selected == get_pending(p, max_gas, ProposeMaxTxCount, walk, overflow_checks)
        valid_txs == ValidOnly(selected.transactions)
        made == BlockNew(parent.header.number + 1, BlockHash(parent), ZeroHash,
                         proposer, valid_txs, max_gas, now)
        counted == IF proposer \in DOMAIN c.validators
                   THEN [c EXCEPT !.validators[proposer] =
                            update_uptime([@ EXCEPT !.blocks_produced = @ + 1], TRUE)]
                   ELSE c
        keep(result) == [result |-> result, block |-> parent, consensus |-> c, p |-> p]
    IN  IF ~verify_chain_canonical(c, BlockHash(parent))
        THEN keep("BlockProductionError")
        ELSE IF selected.status = "panic" \/ made.status = "panic" THEN keep("panic")
        ELSE IF made.status # "ok" THEN keep("BlockchainError")
        ELSE [result |-> "Ok", block |-> made.block, consensus |-> counted,
              p |-> remove_included(p, valid_txs)]

----------------------------------------------------------------------------
(* storage/src/db.rs: the column families Blocks, BlockHashes,             *)
(* BlockNumbers, Transactions and Receipts.  A WriteBatch is written       *)
(* whole or not at all.                                                    *)

\* Database::open on an empty directory
DatabaseOpen ==
    [blocks |-> EmptyMap, block_hashes |-> EmptyMap, block_numbers |-> EmptyMap,
     transactions |-> EmptyMap, receipts |-> EmptyMap]

\* the batch that store_block writes for the block itself
block_batch(db, block) ==
    [db EXCEPT !.blocks = MapInsert(@, BlockHash(block), block),
               !.block_hashes = MapInsert(@, block.header.number, BlockHash(block)),
               !.block_numbers = MapInsert(@, BlockHash(block), block.header.number)]

\* the receipt that store_block makes up for a transaction of the block
synthetic_receipt(tx, block_number) ==
    [tx_hash |-> TxHash(tx), block_number |-> block_number, from |-> tx.from,
     to |-> recipient(tx), gas_used |-> TxGasUsed, status |-> "Success",
     contract_address |-> None, logs |-> <<>>]

\* Database::store_transaction: one batch for the two families
store_transaction(db, tx, receipt) ==
    [db EXCEPT !.transactions = MapInsert(@, TxHash(tx), tx),
               !.receipts = MapInsert(@, TxHash(tx), receipt)]

----------------------------------------------------------------------------
(* networking/src/p2p.rs: the inflight keys and the outbox *)

\* NetworkService::new
NetworkServiceNew == [inflight |-> {}, outbox |-> EmptyMap]

\* the inflight key of a peer: "mempool_sync:" and the peer's id in hex
SyncKey(peer_id) == <<"mempool_sync", peer_id>>

\* the sequence s without its element i
RemoveAt(s, i) == SubSeq(s, 1, i - 1) \o SubSeq(s, i + 1, Len(s))

\* NetworkService::send_to_peer
send_to_peer(outbox, peer_id, msg) ==
    MapInsert(outbox, peer_id,
              IF peer_id \in DOMAIN outbox THEN Append(outbox[peer_id], msg)
              ELSE <<msg>>)

\* handle_mempool_sync_request that never looks for the key
sync_begin_unguarded(net, handlers, peer_id, req) ==
    [result |-> "running",
     network |-> [net EXCEPT !.inflight = @ \cup {SyncKey(peer_id)}],
     handlers |-> Append(handlers, [peer_id |-> peer_id, req |-> req,
                                    pc |-> "respond"])]

\* handle_mempool_sync_request while it holds the inflight lock: the request
\* fails, or its key goes in and the handler goes on
sync_begin(net, handlers, peer_id, req) ==
    IF SyncKey(peer_id) \in net.inflight
    THEN [result |-> "Timeout", network |-> net, handlers |-> handlers]
    ELSE [result |-> "running",
          network |-> [net EXCEPT !.inflight = @ \cup {SyncKey(peer_id)}],
          handlers |-> Append(handlers, [peer_id |-> peer_id, req |-> req,
                                         pc |-> "respond"])]

\* the loop of handle_mempool_sync_request over the pending transactions
RECURSIVE SyncFilter(_, _, _)
SyncFilter(txs, pushed, req) ==
    IF txs = <<>> THEN pushed
    ELSE LET next == IF Head(txs).gas_price >= req.min_gas_price
                     THEN Append(pushed, Head(txs)) ELSE pushed
         IN  IF Len(next) >= req.max_count THEN next
             ELSE SyncFilter(Tail(txs), next, req)

\* handle_mempool_sync_request from the mempool lock to the push on the
\* outbox; a panic of get_pending ends the handler where it is
sync_respond(net, handlers, i, p, walk, overflow_checks) ==
    LET handler == handlers[i]
        got == get_pending(p, U64Modulus - 1, handler.req.max_count, walk,
                           overflow_checks)
        response == [kind |-> "MempoolSyncResponse",
                     transactions |-> SyncFilter(got.transactions, <<>>, handler.req)]
    IN  IF got.status = "panic"
        THEN [result |-> "panic", network |-> net,
              handlers |-> [handlers EXCEPT ![i].pc = "panicked"]]
        ELSE [result |-> "running",
              network |-> [net EXCEPT !.outbox =
                              send_to_peer(@, handler.peer_id, response)],
              handlers |-> [handlers EXCEPT ![i].pc = "clear"]]

\* the end of handle_mempool_sync_request: the key goes out
sync_clear(net, handlers, i) ==
    [result |-> "Ok",
     network |-> [net EXCEPT !.inflight = @ \ {SyncKey(handlers[i].peer_id)}],
     handlers |-> RemoveAt(handlers, i)]

----------------------------------------------------------------------------
(* The locks of the node (runtime.rs: RwLock) and of the network service   *)
(* (p2p.rs: Mutex), and the activities that take them.  The program of an  *)
(* activity is the sequence of its acquisitions and releases, in the order *)
(* of the source; a Database call is an acquisition of "storage" that ends *)
(* with the call.                                                          *)

Acquire(lock, mode) == [op |-> "acquire", lock |-> lock, mode |-> mode]
Release(lock) == [op |-> "release", lock |-> lock, mode |-> "none"]
StorageCall == <<Acquire("storage", "read"), Release("storage")>>

\* start_mempool_tasks, task 1
PruneLoop == <<Acquire("mempool", "write"), Release("mempool")>>

\* start_mempool_tasks, task 2: the read guard is a temporary of the statement
PersistLoop == <<Acquire("mempool", "read"), Release("mempool")>> \o StorageCall

\* start_fork_monitor
ForkMonitorLoop == <<Acquire("chain", "read"), Release("chain")>> \o StorageCall

\* Node::produce_block
ProduceBlockLocks ==
    <<Acquire("mempool", "read"), Release("mempool"),
      Acquire("chain", "read"), Release("chain")>>

\* Node::handle_incoming_block: the chain guard lives to the end of the call
HandleIncomingBlockLocks ==
    <<Acquire("chain", "read")>> \o StorageCall \o <<Release("chain")>>

\* submit_transaction that keeps the chain guard while it takes the mempool
SubmitTransactionLocks_nested ==
    <<Acquire("chain", "read"), Acquire("mempool", "write"),
      Release("mempool"), Release("chain")>>

\* Node::submit_transaction
SubmitTransactionLocks ==
    <<Acquire("chain", "read"), Release("chain"),
      Acquire("mempool", "write"), Release("mempool")>>

\* NetworkService::handle_new_pending_transaction, with send_to_peer
NewPendingTransactionLocks ==
    <<Acquire("seen_tx", "lock"), Release("seen_tx"),
      Acquire("net_mempool", "lock"), Acquire("peer_manager", "lock"),
      Release("peer_manager"), Release("net_mempool"),
      Acquire("peer_manager", "lock"), Acquire("outbox", "lock"),
      Release("outbox"), Release("peer_manager")>>

\* NetworkService::handle_mempool_sync_request, with send_to_peer
MempoolSyncLocks ==
    <<Acquire("inflight", "lock"), Release("inflight"),
      Acquire("net_mempool", "lock"), Release("net_mempool"),
      Acquire("outbox", "lock"), Release("outbox"),
      Acquire("inflight", "lock"), Release("inflight")>>

Activities ==
    {"prune", "persist", "fork_monitor", "produce_block",
     "handle_incoming_block", "submit_transaction",
     "new_pending_transaction", "mempool_sync"}

ProgramOf(activity) ==
    CASE activity = "prune" -> PruneLoop
      [] activity = "persist" -> PersistLoop
      [] activity = "fork_monitor" -> ForkMonitorLoop
      [] activity = "produce_block" -> ProduceBlockLocks
      [] activity = "handle_incoming_block" -> HandleIncomingBlockLocks
      [] activity = "submit_transaction" -> SubmitTransactionLocks
      [] activity = "new_pending_transaction" -> NewPendingTransactionLocks
      [] activity = "mempool_sync" -> MempoolSyncLocks

\* the guards that a program holds before its step pc, oldest first
RECURSIVE HeldBefore(_, _)
HeldBefore(program, pc) ==
    IF pc <= 1 THEN <<>>
    ELSE LET before == HeldBefore(program, pc - 1)
             step == program[pc - 1]
         IN  IF step.op = "acquire" THEN Append(before, step)
             ELSE SelectSeq(before, LAMBDA g : g.lock # step.lock)

\* no call in progress
TasksIdle ==
    [store_block |-> None, mempool_sync |-> <<>>,
     activities |-> [activity \in Activities |-> 1]]

----------------------------------------------------------------------------
(* The components at rest *)

WS == [accounts |-> accounts, modifications |-> modifications]

IdleLast == [op |-> "none"]

WsIdle == accounts = EmptyMap /\ modifications = <<>> /\ frames = <<>>

ChainIdle ==
    /\ blocks = EmptyMap
    /\ block_by_number = EmptyMap
    /\ head = <<0>>
    /\ receipts = EmptyMap

IdleConfig ==
    [max_size |-> 0, max_per_account |-> 0, min_gas_price |-> 0,
     enable_replacement |-> FALSE]

PoolIs(p) ==
    /\ config = p.config
    /\ pending = p.pending
    /\ queued = p.queued
    /\ by_hash = p.by_hash
    /\ by_sender = p.by_sender
    /\ metrics = p.metrics

PoolIdle == PoolIs(PoolNew(IdleConfig))

IdleConsensusConfig ==
    [min_stake |-> 0, max_validator_count |-> 0, finality_blocks |-> 0,
     slash_for_wrong_fork |-> FALSE]

ConsIdle == consensus = PoASConsensusNew(IdleConsensusConfig)

NodeIdle ==
    /\ database = DatabaseOpen
    /\ network = NetworkServiceNew
    /\ tasks = TasksIdle

----------------------------------------------------------------------------
(* SpecState: a WorldState driven through its public methods *)

OpenCheckpoints(mods) == Cardinality({i \in DOMAIN mods : mods[i].kind = "Checkpoint"})

\* The account values handed to set_account
AccountValues ==
    { with_balance(b) : b \in 0..MaxUnits }

\* history: an inner checkpoint call marks the enclosing open checkpoint
MarkNested(fs) ==
    IF fs = <<>> THEN fs ELSE [fs EXCEPT ![Len(fs)].nested = TRUE]

\* history: the record of a commit or rollback call
CloseRecord(op) ==
    IF frames = <<>>
    THEN [op |-> op, matched |-> FALSE]
    ELSE [op |-> op, matched |-> TRUE,
          snap |-> Last(frames).accounts,
          depth |-> Last(frames).depth,
          nested |-> Last(frames).nested,
          outer |-> Len(frames) = 1,
          before |-> accounts]

Apply(ws) ==
    /\ Len(ws.modifications) <= MaxLog
    /\ accounts' = ws.accounts
    /\ modifications' = ws.modifications

DoCheckpoint ==
    /\ OpenCheckpoints(modifications) < MaxDepth
    /\ Apply(checkpoint(WS))
    /\ frames' = Append(MarkNested(frames),
                        [accounts |-> accounts, depth |-> Len(modifications),
                         nested |-> FALSE])
    /\ last' = [op |-> "checkpoint"]
    /\ UNCHANGED <<nodeVars, chainVars, poolVars, consensus>>

DoCommit ==
    /\ Apply(commit(WS))
    /\ last' = CloseRecord("commit")
    /\ frames' = IF frames = <<>> THEN frames ELSE MarkNested(Front(frames))
    /\ UNCHANGED <<nodeVars, chainVars, poolVars, consensus>>

DoRollback ==
    /\ Apply(rollback(WS))
    /\ last' = CloseRecord("rollback")
    /\ frames' = IF frames = <<>> THEN frames ELSE MarkNested(Front(frames))
    /\ UNCHANGED <<nodeVars, chainVars, poolVars, consensus>>

DoSetAccount ==
    \E address \in Address, account \in AccountValues :
        /\ Apply(set_account(WS, address, account))
        /\ last' = [op |-> "set_account"]
        /\ UNCHANGED <<nodeVars, frames, chainVars, poolVars, consensus>>

\* state.get_account_mut(address).increment_nonce()
DoIncrementNonce ==
    \E address \in Address :
        /\ get_nonce(WS, address) < MaxNonce
        /\ LET r == get_account_mut(WS, address)
           IN  Apply([r EXCEPT !.accounts[address] = increment_nonce(@)])
        /\ last' = [op |-> "get_account_mut"]
        /\ UNCHANGED <<nodeVars, frames, chainVars, poolVars, consensus>>

DoTransfer ==
    \E from \in Address, to \in Address, amount \in 1..MaxUnits :
        /\ get_balance(WS, to) + amount <= MaxUnits
        /\ LET r == transfer(WS, from, to, amount)
           IN  /\ Apply(r.ws)
               /\ last' = [op |-> "transfer", ok |-> r.ok]
        /\ UNCHANGED <<nodeVars, frames, chainVars, poolVars, consensus>>

InitState == WsIdle /\ ChainIdle /\ PoolIdle /\ ConsIdle /\ last = IdleLast /\ NodeIdle

NextState ==
    \/ DoCheckpoint
    \/ DoCommit
    \/ DoRollback
    \/ DoSetAccount
    \/ DoIncrementNonce
    \/ DoTransfer

SpecState == InitState /\ [][NextState]_vars

\* The call just made closed a checkpoint that had no checkpoint, commit or
\* rollback call between its checkpoint() and now.
ClosedSingle(op) ==
    /\ last.op = op
    /\ last.matched
    /\ ~last.nested

\* C1: after checkpoint() and any sequence of account mutations, rollback()
\* leaves the account map as it was at the checkpoint (accounts created since
\* are gone) and commit() leaves the mutated account map; in both cases the
\* modification log is as long as it was before the checkpoint.
C1_CheckpointRoundTrip ==
    /\ ClosedSingle("rollback") =>
            accounts = last.snap /\ Len(modifications) = last.depth
    /\ ClosedSingle("commit") =>
            accounts = last.before /\ Len(modifications) = last.depth

\* C1 witness: a rollback has removed an account created since its
\* checkpoint, with entries logged before the checkpoint still in the log.
C1_Witness ==
    /\ ClosedSingle("rollback")
    /\ last.depth > 0
    /\ \E a \in DOMAIN last.before : a \notin DOMAIN last.snap

\* C2: a rollback() of an outer checkpoint restores the account map as it was
\* when that checkpoint was taken, whatever inner checkpoint / commit /
\* rollback pairs and mutations came in between.
C2_NestedRollbackRestores ==
    (last.op = "rollback" /\ last.matched) => accounts = last.snap

----------------------------------------------------------------------------
(* SpecExec: transactions executed on a chain that holds its genesis block *)

MaxGasPrice == 1    \* gas prices are 0..MaxGasPrice
ExecAmount == 9000  \* the amount moved by the transactions of SpecExec

Genesis == genesis(ZeroHash)

ChainAtGenesis ==
    LET c == BlockchainNew(Genesis)
    IN  /\ blocks = c.blocks
        /\ block_by_number = c.block_by_number
        /\ head = c.head
        /\ receipts = c.receipts
        /\ accounts = c.state.accounts
        /\ modifications = c.state.modifications

TxTypes ==
    { [kind |-> "Transfer", to |-> to, amount |-> amount, data |-> <<>>] :
        to \in Address, amount \in {0, ExecAmount} }
    \cup
    { [kind |-> kind, to |-> 0, amount |-> amount, data |-> <<>>] :
        kind \in {"Stake", "Unstake", "DeployLiquidity", "WithdrawLiquidity"},
        amount \in {0, ExecAmount} }
    \cup
    { [kind |-> kind, to |-> 0, amount |-> 0, data |-> data] :
        kind \in {"ContractDeployment", "ContractCall"}, data \in {<<>>, <<1>>} }

\* the senders of the transactions of SpecExec; every address is a recipient
ExecSenders == {0}

ExecTxs ==
    [from : ExecSenders, nonce : 0..MaxNonce, tx_type : TxTypes,
     gas_price : 0..MaxGasPrice, gas_limit : {0, TxGasUsed},
     signature : {None, Some(1)}]

\* the balances that accounts are created with
FundAmounts == {TxGasUsed, TxGasUsed + ExecAmount, 2 * TxGasUsed + 2 * ExecAmount}

\* chain.state_mut().set_account(address, Account::with_balance(balance))
ExecFund ==
    \E address \in Address, balance \in FundAmounts :
        /\ address \notin DOMAIN accounts
        /\ Apply(set_account(WS, address, with_balance(balance)))
        /\ last' = [op |-> "set_account"]
        /\ UNCHANGED <<nodeVars, frames, blocks, block_by_number, head, receipts, poolVars, consensus>>

ExecuteTransaction ==
    \E tx \in ExecTxs :
        LET r == execute_transaction(WS, receipts, height(blocks, head), tx)
        IN  /\ Apply(r.ws)
            /\ receipts' = r.receipts
            /\ last' = [op |-> "execute_transaction", result |-> r.result,
                        checkpointed |-> r.checkpointed,
                        from |-> tx.from, nonce |-> tx.nonce,
                        before |-> WS, before_receipts |-> receipts]
            /\ UNCHANGED <<nodeVars, frames, blocks, block_by_number, head, poolVars, consensus>>

InitExec == ChainAtGenesis /\ frames = <<>> /\ PoolIdle /\ ConsIdle /\ last = IdleLast /\ NodeIdle

NextExec == ExecFund \/ ExecuteTransaction

SpecExec == InitExec /\ [][NextExec]_vars

\* C3: when execute_transaction returns an error, the account map, the
\* stored receipts and the modification log are as they were before the call.
C3_FailedExecutionLeavesNoTrace ==
    (last.op = "execute_transaction" /\ last.result # "Ok") =>
        /\ accounts = last.before.accounts
        /\ modifications = last.before.modifications
        /\ receipts = last.before_receipts

\* C3 witness: a transaction failed after the checkpoint was taken, on a
\* state with logged modifications and stored receipts.
C3_Witness ==
    /\ last.op = "execute_transaction"
    /\ last.checkpointed
    /\ last.result \in {"InsufficientBalance", "StateError"}
    /\ modifications # <<>>
    /\ receipts # EmptyMap

\* C4: a successful execute_transaction(tx) leaves the nonce of tx.from one
\* above its value before the call, and that value was tx.nonce.
C4_SuccessBumpsNonceByOne ==
    (last.op = "execute_transaction" /\ last.result = "Ok") =>
        /\ get_nonce(WS, last.from) = get_nonce(last.before, last.from) + 1
        /\ last.nonce = get_nonce(last.before, last.from)

\* C4 witness: a transaction with a nonce above zero was executed.
C4_Witness ==
    /\ last.op = "execute_transaction"
    /\ last.result = "Ok"
    /\ last.nonce > 0
    /\ get_nonce(WS, last.from) = last.nonce + 1

----------------------------------------------------------------------------
(* SpecBlocks: blocks offered to Blockchain::add_block *)

MaxHeight == 2      \* block numbers of the offered blocks
MaxTime == 2        \* timestamps of the offered blocks
MaxBlocks == 3      \* stored blocks, the genesis block among them
MaxBlockTxs == 2    \* transactions of an offered block

BlockTxSigned ==
    [from |-> 0, nonce |-> 0,
     tx_type |-> [kind |-> "Transfer", to |-> MaxAddr, amount |-> ExecAmount,
                  data |-> <<>>],
     gas_price |-> 1, gas_limit |-> TxGasUsed, signature |-> Some(1)]

BlockTxUnsigned == [BlockTxSigned EXCEPT !.signature = None]

RECURSIVE SeqsUpTo(_, _)
SeqsUpTo(S, n) ==
    IF n = 0 THEN {<<>>}
    ELSE SeqsUpTo(S, n - 1) \cup
         { Append(q, x) : q \in {r \in SeqsUpTo(S, n - 1) : Len(r) = n - 1}, x \in S }

BlockTxLists == SeqsUpTo({BlockTxSigned, BlockTxUnsigned}, MaxBlockTxs)

\* a transactions root and a state root that nothing of the model hashes to
BogusRoot == HashBytes(<<>>)

Tampers == {"none", "number", "parent_hash", "timestamp", "gas_limit",
            "gas_used", "transactions_root", "state_root"}

\* a block as Block::new builds it, with one header field changed afterwards
Tamper(block, t) ==
    CASE t = "number" -> [block EXCEPT !.header.number = @ + 1]
      [] t = "parent_hash" -> [block EXCEPT !.header.parent_hash = ZeroHash]
      [] t = "timestamp" -> [block EXCEPT !.header.timestamp = @ - 1]
      [] t = "gas_limit" ->
            [block EXCEPT !.header.gas_limit =
                IF block.header.gas_used > 0 THEN block.header.gas_used - 1 ELSE @]
      [] t = "gas_used" -> [block EXCEPT !.header.gas_used = @ + 1]
      [] t = "transactions_root" -> [block EXCEPT !.header.transactions_root = BogusRoot]
      [] t = "state_root" -> [block EXCEPT !.header.state_root = BogusRoot]
      [] OTHER -> block

\* the blocks offered in the current state: built on a stored block at a
\* time after it or at its own time
OfferedBlocks ==
    { Tamper(BlockNew(blocks[ph].header.number + 1, ph, state_root(WS), 0,
                      txs, GenesisGasLimit, now).block, t) :
        ph \in {h \in DOMAIN blocks : blocks[h].header.number < MaxHeight},
        txs \in BlockTxLists, now \in 1..MaxTime, t \in Tampers }

\* history keeps the offered block of a successful call only; of a failed
\* call it keeps what the block was like
AddBlock ==
    \E block \in OfferedBlocks :
        LET r == add_block(blocks, block_by_number, head, WS, block)
            parent_known == block.header.parent_hash \in DOMAIN blocks
        IN  /\ Cardinality(DOMAIN r.blocks) <= MaxBlocks
            /\ blocks' = r.blocks
            /\ block_by_number' = r.block_by_number
            /\ head' = r.head
            /\ last' = [op |-> "add_block", result |-> r.result,
                        detail |-> r.detail,
                        parent_known |-> parent_known,
                        valid |-> parent_known /\
                            BlockValidate(block, blocks[block.header.parent_hash]) = "Ok",
                        root_matches |-> block.header.state_root = state_root(WS),
                        block |-> IF r.result = "Ok" THEN Some(block) ELSE None,
                        before |-> [blocks |-> blocks,
                                    block_by_number |-> block_by_number,
                                    head |-> head]]
            /\ UNCHANGED <<nodeVars, accounts, modifications, receipts, frames, poolVars, consensus>>

\* the chain of SpecBlocks starts on an empty world state or on one account
InitBlocks ==
    /\ NodeIdle
    /\ accounts \in {EmptyMap, MapInsert(EmptyMap, 0, with_balance(TxGasUsed))}
    /\ modifications = <<>>
    /\ LET c == BlockchainNew(genesis(state_root(WorldStateNew)))
       IN  /\ blocks = c.blocks
           /\ block_by_number = c.block_by_number
           /\ head = c.head
           /\ receipts = c.receipts
    /\ frames = <<>>
    /\ PoolIdle
    /\ ConsIdle
    /\ last = IdleLast

NextBlocks == AddBlock

SpecBlocks == InitBlocks /\ [][NextBlocks]_vars

\* C5: add_block fails with BlockNotFound when the parent hash is not a
\* stored block, fails when the block does not validate against its parent or
\* its state root is not the current one, and a failure leaves blocks, the
\* number index and head unchanged; on success the block is stored under its
\* hash, the index maps its number to its hash and head is its hash, so that
\* height() is its number.
C5_AddBlock ==
    last.op = "add_block" =>
        /\ ~last.parent_known => last.result = "BlockNotFound"
        /\ (last.parent_known /\ (~last.valid \/ ~last.root_matches)) =>
               last.result \notin {"Ok", "BlockNotFound"}
        /\ last.result # "Ok" =>
               /\ blocks = last.before.blocks
               /\ block_by_number = last.before.block_by_number
               /\ head = last.before.head
        /\ last.result = "Ok" =>
               LET block == last.block[1]
                   hash == BlockHash(block)
               IN  /\ hash \in DOMAIN blocks
                   /\ blocks[hash] = block
                   /\ block.header.number \in DOMAIN block_by_number
                   /\ block_by_number[block.header.number] = hash
                   /\ head = hash
                   /\ height(blocks, head) = block.header.number

\* C5 witness: block 1 was added to the genesis block, and then a block whose
\* only fault is its state root was refused.
C5_Witness ==
    /\ last.op = "add_block"
    /\ last.result = "InvalidBlock"
    /\ last.detail = "State root mismatch"
    /\ height(blocks, head) = 1
    /\ blocks[head].header.parent_hash = BlockHash(genesis(ZeroHash))

----------------------------------------------------------------------------
(* SpecValidate: Block::validate on pairs of a block and a parent *)

ValidateParents ==
    { Genesis,
      BlockNew(1, BlockHash(Genesis), ZeroHash, 0, <<>>, GenesisGasLimit, 1).block }

\* the transactions roots of the blocks of SpecValidate
ValidateRoots ==
    {ZeroHash, BogusRoot} \cup
    { MerkleRoot(TxHashes(txs)).root : txs \in BlockTxLists \ {<<>>} }

ValidateBlocks(parent) ==
    { [header |-> [number |-> number,
                   parent_hash |-> parent_hash,
                   transactions_root |-> root,
                   state_root |-> ZeroHash,
                   timestamp |-> timestamp,
                   proposer |-> 0,
                   gas_limit |-> gas_limit,
                   gas_used |-> gas_used,
                   extra_data |-> <<>>],
       transactions |-> txs] :
        number \in {parent.header.number, parent.header.number + 1},
        parent_hash \in {BlockHash(parent), ZeroHash},
        root \in ValidateRoots,
        timestamp \in {parent.header.timestamp, parent.header.timestamp + 1},
        gas_limit \in {TxGasUsed, GenesisGasLimit},
        gas_used \in {TxGasUsed * k : k \in 0..MaxBlockTxs},
        txs \in BlockTxLists }

InitValidate ==
    /\ NodeIdle
    /\ WsIdle /\ ChainIdle /\ PoolIdle /\ ConsIdle
    /\ \E parent \in ValidateParents :
           \E block \in ValidateBlocks(parent) :
               last = [op |-> "input", block |-> block, parent |-> parent]

Validate ==
    /\ last.op = "input"
    /\ last' = [op |-> "validate", block |-> last.block, parent |-> last.parent,
                result |-> BlockValidate(last.block, last.parent)]
    /\ UNCHANGED <<nodeVars, wsVars, chainVars, poolVars, frames, consensus>>

NextValidate == Validate

SpecValidate == InitValidate /\ [][NextValidate]_vars

\* the conditions under which a child block is to be accepted
AcceptableChild(block, parent) ==
    /\ block.header.number = parent.header.number + 1
    /\ block.header.parent_hash = BlockHash(parent)
    /\ block.header.timestamp > parent.header.timestamp
    /\ block.header.gas_used <= block.header.gas_limit
    /\ block.header.gas_used = SumGasLimit(block.transactions)
    /\ \A i \in DOMAIN block.transactions : validate_basic(block.transactions[i])
    /\ block.header.transactions_root =
           IF block.transactions = <<>> THEN ZeroHash
           ELSE MerkleRoot(TxHashes(block.transactions)).root

\* C6: Block::validate accepts a child block if and only if its number is the
\* parent's plus one, its parent hash is the parent's hash, its timestamp is
\* later than the parent's, its gas used is within its gas limit and is the sum
\* of its transactions' gas limits, its transactions are valid, and its
\* transactions root is the Merkle root of their hashes, the zero hash when
\* it has none.
C6_ValidateAcceptsExactly ==
    last.op = "validate" =>
        (last.result = "Ok" <=> AcceptableChild(last.block, last.parent))

----------------------------------------------------------------------------
(* SpecPool: a TransactionPool driven through its public methods *)

PoolMaxSize == 2        \* config.max_size
PoolMaxPerAccount == 2  \* config.max_per_account
PoolMaxGasPrice == 2    \* gas prices of the offered transactions
MaxCount == 2           \* max_count of get_pending
MaxIncluded == 2        \* transactions of a remove_included call
MaxCounter == 3         \* metrics.pending_count and metrics.queued_count

\* min_gas_price of PoolConfig::default()
DefaultMinGasPrice == 1

\* enable_replacement of PoolConfig::default()
DefaultEnableReplacement == TRUE

Pool == [config |-> config, pending |-> pending, queued |-> queued,
         by_hash |-> by_hash, by_sender |-> by_sender, metrics |-> metrics]

SetPool(p) ==
    /\ p.metrics.pending_count <= MaxCounter
    /\ p.metrics.queued_count <= MaxCounter
    /\ config' = p.config
    /\ pending' = p.pending
    /\ queued' = p.queued
    /\ by_hash' = p.by_hash
    /\ by_sender' = p.by_sender
    /\ metrics' = p.metrics

\* an ordinary gas limit, and one near the top of u64
PoolGasLimits == {TxGasUsed, U64Modulus - TxGasUsed}

\* the signed transactions offered to the pool, and an unsigned one
PoolSignedTxs ==
    { [from |-> from, nonce |-> nonce,
       tx_type |-> [kind |-> "Transfer", to |-> 0, amount |-> ExecAmount,
                    data |-> <<>>],
       gas_price |-> gas_price, gas_limit |-> gas_limit, signature |-> Some(1)] :
        from \in Address, nonce \in 0..MaxNonce, gas_price \in 1..PoolMaxGasPrice,
        gas_limit \in PoolGasLimits }

PoolTxs == PoolSignedTxs \cup {BlockTxUnsigned}

PoolAdd ==
    \E tx \in PoolTxs, current_nonce \in 0..MaxNonce :
        \E victim \in IF EvictionVictims(Pool) = {} THEN {ZeroHash}
                       ELSE EvictionVictims(Pool) :
            LET r == add(Pool, tx, current_nonce, victim)
            IN  /\ SetPool(r.p)
                /\ last' = [op |-> "add", result |-> r.result]
                /\ UNCHANGED <<nodeVars, wsVars, chainVars, frames, consensus>>

PoolRemove ==
    \E tx \in PoolTxs :
        /\ SetPool(remove(Pool, TxHash(tx)))
        /\ last' = [op |-> "remove", found |-> TxHash(tx) \in DOMAIN by_hash]
        /\ UNCHANGED <<nodeVars, wsVars, chainVars, frames, consensus>>

\* the transactions of a block: transactions of the pool, in a block's order
IncludedLists ==
    { q \in SeqsUpTo({by_hash[h] : h \in DOMAIN by_hash}, MaxIncluded) :
        \A i, j \in DOMAIN q : i # j => q[i] # q[j] }

PoolRemoveIncluded ==
    \E transactions \in IncludedLists :
        /\ SetPool(remove_included(Pool, transactions))
        /\ last' = [op |-> "remove_included", count |-> Len(transactions)]
        /\ UNCHANGED <<nodeVars, wsVars, chainVars, frames, consensus>>

\* the iteration orders of the buckets of pending
Walks == { w \in [DOMAIN pending -> UNION {Orders(DOMAIN pending[g]) : g \in DOMAIN pending}] :
             \A g \in DOMAIN pending : w[g] \in Orders(DOMAIN pending[g]) }

\* the calls of get_pending in the current state: the bounds, the iteration
\* order of the buckets and the build's overflow checks
GetPendingCalls ==
    [max_gas : {TxGasUsed, 2 * TxGasUsed}, max_count : 0..MaxCount,
     walk : Walks, overflow_checks : BOOLEAN]

GetPendingOf(call) ==
    get_pending(Pool, call.max_gas, call.max_count, call.walk, call.overflow_checks)

PoolGetPending ==
    \E call \in GetPendingCalls :
        /\ last' = [op |-> "get_pending", status |-> GetPendingOf(call).status]
        /\ UNCHANGED <<nodeVars, wsVars, chainVars, poolVars, frames, consensus>>

InitPool ==
    /\ NodeIdle
    /\ WsIdle /\ ChainIdle /\ ConsIdle
    /\ \E max_per_account \in 1..PoolMaxPerAccount :
        PoolIs(PoolNew([max_size |-> PoolMaxSize,
                       max_per_account |-> max_per_account,
                       min_gas_price |-> DefaultMinGasPrice,
                       enable_replacement |-> DefaultEnableReplacement]))
    /\ last = IdleLast

NextPool ==
    \/ PoolAdd
    \/ PoolRemove
    \/ PoolRemoveIncluded
    \/ PoolGetPending

SpecPool == InitPool /\ [][NextPool]_vars

\* the places of the pending index and of the queued index that hold an
\* entry of the transaction with hash h
PendingPlaces(h) == {g \in DOMAIN pending : h \in DOMAIN pending[g]}

QueuedPlaces(h) ==
    { <<a, n>> \in Address \X (0..MaxNonce) :
        /\ a \in DOMAIN queued
        /\ n \in DOMAIN queued[a]
        /\ TxHash(queued[a][n].transaction) = h }

PoolHashes == {TxHash(tx) : tx \in PoolTxs}

\* C7: every hash of by_hash has exactly one entry, in the pending index or in
\* the queued index, and the two indexes hold no entry of another hash.
C7_EveryHashIndexedOnce ==
    /\ \A h \in DOMAIN by_hash :
           Cardinality(PendingPlaces(h)) + Cardinality(QueuedPlaces(h)) = 1
    /\ \A h \in PoolHashes \ DOMAIN by_hash :
           PendingPlaces(h) = {} /\ QueuedPlaces(h) = {}

\* the entries of the two indexes whose sender is a
EntriesOf(a) ==
    Cardinality({h \in PoolHashes :
                    \E g \in PendingPlaces(h) : pending[g][h].transaction.from = a})
    + Cardinality({n \in 0..MaxNonce :
                    a \in DOMAIN queued /\ n \in DOMAIN queued[a]})

\* C8: by_sender[a] is the number of pending and queued entries of sender a.
C8_SenderCountMatchesEntries ==
    \A a \in Address :
        (IF a \in DOMAIN by_sender THEN by_sender[a] ELSE 0) = EntriesOf(a)

\* C9: whatever the bounds and the iteration order of the buckets, the list
\* that get_pending returns has non-increasing gas prices.
C9_PendingByDescendingPrice ==
    \A call \in GetPendingCalls :
        LET r == GetPendingOf(call)
        IN  r.status # "panic" =>
                \A i, j \in DOMAIN r.transactions :
                    i < j => r.transactions[i].gas_price >= r.transactions[j].gas_price

\* C9 witness: get_pending was called on a pool from which it returns two
\* transactions of different prices.
C9_Witness ==
    /\ last.op = "get_pending"
    /\ \E call \in GetPendingCalls :
           LET r == GetPendingOf(call)
           IN  /\ r.status # "panic"
               /\ Len(r.transactions) = 2
               /\ r.transactions[1].gas_price > r.transactions[2].gas_price

PendingTransactions ==
    { tx \in PoolTxs :
        \E g \in PendingPlaces(TxHash(tx)) :
            /\ pending[g][TxHash(tx)].transaction = tx
            /\ pending[g][TxHash(tx)].status = "Pending" }

\* C10: get_pending returns pending entries only, at most max_count of them,
\* with gas limits that sum to at most max_gas; and it passes over an entry
\* that does not fit without ending the selection: a pending transaction is
\* left out only if max_count was reached or it does not fit what is left
\* of max_gas.
C10_PendingWithinBounds ==
    \A call \in GetPendingCalls :
        LET r == GetPendingOf(call)
            returned == {r.transactions[i] : i \in DOMAIN r.transactions}
        IN  r.status # "panic" =>
                /\ returned \subseteq PendingTransactions
                /\ Cardinality(returned) = Len(r.transactions)
                /\ Len(r.transactions) <= call.max_count
                /\ SumGasLimit(r.transactions) <= call.max_gas
                /\ \A tx \in PendingTransactions \ returned :
                       \/ Len(r.transactions) = call.max_count
                       \/ SumGasLimit(r.transactions) + tx.gas_limit > call.max_gas

----------------------------------------------------------------------------
(* Admission to the pool: the calls of add in the current state *)

\* the calls of add in the current state: the transaction, the sender's
\* nonce, and the key try_evict_lowest_gas finds first
AddCalls ==
    [tx : PoolTxs, current_nonce : 0..MaxNonce,
     victim : IF EvictionVictims(Pool) = {} THEN {ZeroHash}
              ELSE EvictionVictims(Pool)]

AddOf(call) == add(Pool, call.tx, call.current_nonce, call.victim)

\* the pool p holds the transaction tx in its pending index
InPending(p, tx) ==
    /\ tx.gas_price \in DOMAIN p.pending
    /\ TxHash(tx) \in DOMAIN p.pending[tx.gas_price]
    /\ p.pending[tx.gas_price][TxHash(tx)] = PoolEntry(tx, "Pending")

\* the pool p holds the transaction tx in its queued index
InQueued(p, tx) ==
    /\ tx.from \in DOMAIN p.queued
    /\ tx.nonce \in DOMAIN p.queued[tx.from]
    /\ p.queued[tx.from][tx.nonce] = PoolEntry(tx, "Queued")

\* add has to evict an entry to make room
AddEvicts == Cardinality(DOMAIN by_hash) >= config.max_size

ResidentPrices(p) == {p.by_hash[h].gas_price : h \in DOMAIN p.by_hash}

\* the transactions of the pool p at its lowest resident gas price
LowestPriced(p) ==
    {h \in DOMAIN p.by_hash : p.by_hash[h].gas_price = Min(ResidentPrices(p))}

\* C12: a successful add, to a pool that holds max_size transactions, of a
\* transaction priced above the lowest resident gas price leaves max_size
\* transactions in the pool and a lowest resident gas price above the one
\* before the add.  Stated for the pools in which one transaction alone has
\* the lowest price: with two at the lowest price no eviction of one entry
\* can raise it.
C12_EvictionRaisesLowestPrice ==
    \A call \in AddCalls :
        LET r == AddOf(call)
        IN  ( /\ Cardinality(DOMAIN by_hash) = config.max_size
              /\ call.tx.gas_price > Min(ResidentPrices(Pool))
              /\ Cardinality(LowestPriced(Pool)) = 1
              /\ r.result = "Ok" ) =>
                /\ Cardinality(DOMAIN r.p.by_hash) = config.max_size
                /\ Min(ResidentPrices(r.p)) > Min(ResidentPrices(Pool))

\* the transactions of sender a that the pool p holds
HeldOf(p, a) == {h \in DOMAIN p.by_hash : p.by_hash[h].from = a}

\* the count the pool keeps for the sender a
SenderCount(p, a) == IF a \in DOMAIN p.by_sender THEN p.by_sender[a] ELSE 0

\* the pool holds at most max_size transactions and at most max_per_account
\* of one sender, and an add that finds the pool full and no entry to evict
\* fails with PoolFull
WithinLimits ==
    /\ Cardinality(DOMAIN by_hash) <= config.max_size
    /\ \A a \in Address : Cardinality(HeldOf(Pool, a)) <= config.max_per_account
    /\ \A call \in AddCalls :
           ( /\ validate_basic(call.tx)
             /\ TxHash(call.tx) \notin DOMAIN by_hash
             /\ AddEvicts
             /\ EvictionVictims(Pool) = {} ) => AddOf(call).result = "PoolFull"

\* the add of this call evicts an entry of the sender of its transaction
EvictsOwnEntry(call) ==
    /\ AddEvicts
    /\ call.victim \in DOMAIN by_hash
    /\ by_hash[call.victim].from = call.tx.from

\* C13 as stated: the pool stays within max_size and max_per_account, an add
\* that finds the pool full and nothing to evict fails with PoolFull, and
\* every add by a sender that has max_per_account transactions in the pool is
\* rejected.
C13_SenderAtLimitRejected ==
    /\ WithinLimits
    /\ \A call \in AddCalls :
           ( /\ validate_basic(call.tx)
             /\ TxHash(call.tx) \notin DOMAIN by_hash
             /\ SenderCount(Pool, call.tx.from) >= config.max_per_account )
           => AddOf(call).result # "Ok"

\* C13 amended: the pool stays within max_size and max_per_account, an add
\* that finds the pool full and nothing to evict fails with PoolFull, and an
\* add by a sender that has max_per_account transactions in the pool is
\* rejected unless the add first evicts one of that sender's transactions to
\* make room.
C13_PoolWithinLimits ==
    /\ WithinLimits
    /\ \A call \in AddCalls :
           ( /\ validate_basic(call.tx)
             /\ TxHash(call.tx) \notin DOMAIN by_hash
             /\ SenderCount(Pool, call.tx.from) >= config.max_per_account
             /\ ~EvictsOwnEntry(call) )
           => /\ AddOf(call).result \in {"PoolFull", "InvalidTransaction"}
              /\ TxHash(call.tx) \notin DOMAIN AddOf(call).p.by_hash

\* C13 witness: an add was refused with PoolFull, in a pool at max_size that
\* has room for another sender while one sender is at max_per_account.
C13_Witness ==
    /\ last.op = "add"
    /\ last.result = "PoolFull"
    /\ Cardinality(DOMAIN by_hash) = config.max_size
    /\ \E a \in Address : SenderCount(Pool, a) = config.max_per_account
    /\ \E a \in Address : SenderCount(Pool, a) < config.max_per_account

----------------------------------------------------------------------------
(* Promotion: the calls of remove_included in the current state *)

\* the nonces of the transactions of sender a in a block's transactions
IncludedNonces(transactions, a) ==
    {transactions[i].nonce : i \in {j \in DOMAIN transactions : transactions[j].from = a}}

\* the queued entries of the pool, as <<sender, nonce>>
QueuedKeys ==
    { k \in Address \X (0..MaxNonce) :
        k[1] \in DOMAIN queued /\ k[2] \in DOMAIN queued[k[1]] }

\* C14: remove_included(transactions) moves a queued entry to pending only if
\* its nonce is the sender's current nonce, the one after the sender's
\* included transactions; a queued entry of a sender with no included
\* transaction, or one further ahead, stays queued.
C14_PromotionOnlyAtCurrentNonce ==
    \A transactions \in IncludedLists :
        LET r == remove_included(Pool, transactions)
        IN  \A k \in QueuedKeys :
                InPending(r, queued[k[1]][k[2]].transaction) =>
                    /\ IncludedNonces(transactions, k[1]) # {}
                    /\ k[2] = Max(IncludedNonces(transactions, k[1])) + 1

----------------------------------------------------------------------------
(* Replacement by fee *)

\* the transactions of the pool p with the sender and nonce of tx
SameSlot(p, tx) ==
    { h \in DOMAIN p.by_hash :
        p.by_hash[h].from = tx.from /\ p.by_hash[h].nonce = tx.nonce }

\* gas_price >= existing * 1.1 in integer arithmetic
PaysReplacement(gas_price, existing) == gas_price * 10 >= existing * 11

\* C15: with enable_replacement on, add of a valid transaction with the
\* sender and nonce of a transaction of the pool replaces that one when its
\* gas price is at least 1.1 times the other's and fails with
\* DuplicateTransaction otherwise; either way the pool then holds one
\* transaction of that sender and nonce.
C15_ReplacementByFee ==
    \A call \in AddCalls :
        LET r == AddOf(call)
            tx == call.tx
        IN  ( /\ config.enable_replacement
              /\ validate_basic(tx)
              /\ Cardinality(SameSlot(Pool, tx)) = 1
              /\ TxHash(tx) \notin DOMAIN by_hash ) =>
                LET existing == by_hash[CHOOSE h \in SameSlot(Pool, tx) : TRUE]
                IN  /\ Cardinality(SameSlot(r.p, tx)) = 1
                    /\ IF PaysReplacement(tx.gas_price, existing.gas_price)
                       THEN r.result = "Ok" => SameSlot(r.p, tx) = {TxHash(tx)}
                       ELSE r.result = "DuplicateTransaction"

----------------------------------------------------------------------------
(* SpecAccount: the staking and liquidity methods of Account, applied to   *)
(* the accounts of a WorldState through get_account_mut                    *)

MaxStake == 2       \* balances funded and amounts staked, deployed, withdrawn
MaxLiquidity == 3   \* liquidity_deployed of an account

StakingKinds == {"Stake", "Unstake", "DeployLiquidity", "WithdrawLiquidity"}

\* state.set_account(address, Account::with_balance(balance))
AccountFund ==
    \E address \in Address, balance \in 1..MaxStake :
        /\ address \notin DOMAIN accounts
        /\ Apply(set_account(WS, address, with_balance(balance)))
        /\ last' = [op |-> "set_account"]
        /\ UNCHANGED <<nodeVars, frames, chainVars, poolVars, consensus>>

\* state.get_account_mut(address).stake(amount), and the same for unstake,
\* deploy_liquidity and withdraw_liquidity
AccountOp ==
    \E address \in Address, kind \in StakingKinds, amount \in 0..MaxStake :
        LET r == MutateAccount(WS, address, LAMBDA a : ApplyToSender(kind, a, amount))
        IN  /\ r.ws.accounts[address].liquidity_deployed <= MaxLiquidity
            /\ Apply(r.ws)
            /\ last' = [op |-> kind, ok |-> r.ok, address |-> address,
                        amount |-> amount, before |-> get_account(WS, address)]
            /\ UNCHANGED <<nodeVars, frames, chainVars, poolVars, consensus>>

InitAccount == WsIdle /\ ChainIdle /\ PoolIdle /\ ConsIdle /\ last = IdleLast /\ NodeIdle

NextAccount == AccountFund \/ AccountOp

SpecAccount == InitAccount /\ [][NextAccount]_vars

\* C16: liquidity_deployed <= staked for every account after any sequence of
\* stake, unstake, deploy_liquidity and withdraw_liquidity, and unstake(a)
\* fails and leaves the account as it was when staked < a.
C16_LiquidityWithinStake ==
    /\ \A a \in DOMAIN accounts :
           accounts[a].liquidity_deployed <= accounts[a].staked
    /\ (last.op = "Unstake" /\ last.before.staked < last.amount) =>
           ~last.ok /\ accounts[last.address] = last.before

----------------------------------------------------------------------------
(* SpecFork: a chain that receives the blocks of competing branches through *)
(* add_block, and a ForkResolver asked about the heads of its block store   *)

MaxForkBlocks == 6    \* blocks of the store, genesis included
MaxForkHeight == 4    \* block numbers
MaxReorgDepth == 3    \* max_reorg_depth of the resolver

\* chain.add_block of a block built on any stored block; the proposer tells
\* the children of one parent apart
ForkAddBlock ==
    \E parent \in DOMAIN blocks, proposer \in Address :
        LET number == blocks[parent].header.number + 1
            block == BlockNew(number, parent, state_root(WS), proposer, <<>>,
                              GenesisGasLimit, number).block
            r == add_block(blocks, block_by_number, head, WS, block)
        IN  /\ number <= MaxForkHeight
            /\ Cardinality(DOMAIN blocks) < MaxForkBlocks
            /\ BlockHash(block) \notin DOMAIN blocks
            /\ blocks' = r.blocks
            /\ block_by_number' = r.block_by_number
            /\ head' = r.head
            /\ last' = [op |-> "add_block", result |-> r.result]
            /\ UNCHANGED <<nodeVars, wsVars, receipts, frames, poolVars, consensus>>

FindCommonAncestor ==
    \E head_a \in DOMAIN blocks, head_b \in DOMAIN blocks :
        /\ last' = [op |-> "find_common_ancestor",
                    found |-> find_common_ancestor(blocks, blocks, head_a, head_b) # None]
        /\ UNCHANGED <<nodeVars, wsVars, chainVars, frames, poolVars, consensus>>

CalculateReorgPath ==
    \E old_head \in DOMAIN blocks, new_head \in DOMAIN blocks,
       max_reorg_depth \in 0..MaxReorgDepth :
        LET r == calculate_reorg_path(blocks, old_head, new_head, max_reorg_depth)
        IN  /\ last' = [op |-> "calculate_reorg_path", result |-> r.result,
                        reverted |-> Len(r.revert_blocks),
                        applied |-> Len(r.apply_blocks)]
            /\ UNCHANGED <<nodeVars, wsVars, chainVars, frames, poolVars, consensus>>

InitFork == ChainAtGenesis /\ frames = <<>> /\ PoolIdle /\ ConsIdle /\ last = IdleLast /\ NodeIdle

NextFork == ForkAddBlock \/ FindCommonAncestor \/ CalculateReorgPath

SpecFork == InitFork /\ [][NextFork]_vars

\* the blocks of the chain that ends at the block with hash h
RECURSIVE ChainOf(_)
ChainOf(h) ==
    IF h \notin DOMAIN blocks THEN {}
    ELSE {h} \cup ChainOf(blocks[h].header.parent_hash)

\* the highest block that is on the chains of both heads
LatestCommon(head_a, head_b) ==
    CHOOSE h \in ChainOf(head_a) \cap ChainOf(head_b) :
        \A g \in ChainOf(head_a) \cap ChainOf(head_b) :
            blocks[g].header.number <= blocks[h].header.number

\* C17: for any two different heads of the store, find_common_ancestor
\* returns the most recent block that is on both chains, whatever the lengths
\* of the two chains. Every chain of the store ends at genesis, so any two
\* heads share an ancestor.
C17_FindsLatestCommonAncestor ==
    \A head_a \in DOMAIN blocks, head_b \in DOMAIN blocks :
        head_a # head_b =>
            find_common_ancestor(blocks, blocks, head_a, head_b)
                = Some(LatestCommon(head_a, head_b))


\* every call of calculate_reorg_path the store allows
ReorgCalls ==
    [old_head : DOMAIN blocks, new_head : DOMAIN blocks,
     max_reorg_depth : 0..MaxReorgDepth]

ReorgOf(call) ==
    calculate_reorg_path(blocks, call.old_head, call.new_head, call.max_reorg_depth)

\* the hashes of a list of blocks
HashesOf(list) == {BlockHash(list[i]) : i \in DOMAIN list}

\* the blocks of the chain of h above the block with hash below
Above(h, below) == ChainOf(h) \ ChainOf(below)

----------------------------------------------------------------------------
(* SpecReorg: a PoASConsensus with registered validators and justified     *)
(* checkpoints, given the reorg paths that calculate_reorg_path finds in   *)
(* the block store of the chain                                            *)

MaxReorgBlocks == 3       \* blocks of the store, genesis included
MaxReorgHeight == 2       \* block numbers
MaxReorgs == 1            \* reorgs the consensus records
ReorgMinStake == 10       \* config.min_stake
ReorgMaxValidators == 1   \* config.max_validator_count
ReorgFinalityBlocks == 2  \* config.finality_blocks
StakeChoices == {10, 40}
PersistChoices == {"None", "Ok", "Err"}

\* chain.add_block of a block built on any stored block; two blocks of one
\* proposer on one parent differ in their timestamps
ReorgAddBlock ==
    \E parent \in DOMAIN blocks, proposer \in Address, stamp \in 0..1 :
        LET number == blocks[parent].header.number + 1
            block == BlockNew(number, parent, state_root(WS), proposer, <<>>,
                              GenesisGasLimit, 2 * number + stamp).block
            r == add_block(blocks, block_by_number, head, WS, block)
        IN  /\ number <= MaxReorgHeight
            /\ Cardinality(DOMAIN blocks) < MaxReorgBlocks
            /\ BlockHash(block) \notin DOMAIN blocks
            /\ blocks' = r.blocks
            /\ block_by_number' = r.block_by_number
            /\ head' = r.head
            /\ last' = [op |-> "add_block", result |-> r.result]
            /\ UNCHANGED <<nodeVars, wsVars, receipts, frames, poolVars, consensus>>

RegisterValidator ==
    \E address \in Address, stake_amount \in StakeChoices :
        LET r == register_validator(consensus, address, stake_amount)
        IN  /\ consensus' = r.consensus
            /\ last' = [op |-> "register_validator", result |-> r.result]
            /\ UNCHANGED <<nodeVars, wsVars, chainVars, frames, poolVars>>

UpdateJustifiedCheckpoint ==
    \E block_number \in 0..MaxReorgHeight :
        /\ consensus' = update_justified_checkpoint(consensus, block_number)
        /\ last' = [op |-> "update_justified_checkpoint", result |-> "Ok"]
        /\ UNCHANGED <<nodeVars, wsVars, chainVars, frames, poolVars>>

\* every reorg path between two stored heads, with what the persistence
\* callback does
ApplyCalls ==
    {call \in [old_head : DOMAIN blocks, new_head : DOMAIN blocks,
               persist : PersistChoices] :
        calculate_reorg_path(blocks, call.old_head, call.new_head,
                             MaxReorgDepth).result = "Ok"}

PathOf(call) ==
    calculate_reorg_path(blocks, call.old_head, call.new_head, MaxReorgDepth)

ApplyOf(call) == apply_reorg(consensus, PathOf(call), call.persist)

ApplyReorg ==
    \E call \in ApplyCalls :
        LET r == ApplyOf(call)
        IN  /\ consensus.fork_frequency < MaxReorgs
            /\ consensus' = r.consensus
            /\ last' = [op |-> "apply_reorg", result |-> r.result,
                        reverted |-> Len(PathOf(call).revert_blocks),
                        applied |-> Len(PathOf(call).apply_blocks)]
            /\ UNCHANGED <<nodeVars, wsVars, chainVars, frames, poolVars>>

InitReorg ==
    /\ NodeIdle
    /\ ChainAtGenesis /\ frames = <<>> /\ PoolIdle /\ last = IdleLast
    /\ \E slash_for_wrong_fork \in BOOLEAN :
           consensus = PoASConsensusNew(
               [min_stake |-> ReorgMinStake,
                max_validator_count |-> ReorgMaxValidators,
                finality_blocks |-> ReorgFinalityBlocks,
                slash_for_wrong_fork |-> slash_for_wrong_fork])

NextReorg ==
    \/ ReorgAddBlock
    \/ RegisterValidator
    \/ UpdateJustifiedCheckpoint
    \/ ApplyReorg

SpecReorg == InitReorg /\ [][NextReorg]_vars

\* the numbers of the blocks a path reverts
RevertedNumbers(path) ==
    {path.revert_blocks[i].header.number : i \in DOMAIN path.revert_blocks}

\* a path that reverts or applies at least one block
NonEmptyPath(path) == path.revert_blocks # <<>> \/ path.apply_blocks # <<>>

\* C20: with a justified checkpoint j, apply_reorg rejects with ReorgTooDeep
\* every reorg path whose common ancestor has a block number below j and
\* leaves the consensus as it was, and every path it does not reject for
\* its depth reverts only blocks above j. (The empty path is rejected
\* before the comparison, as a validation error.)
C20_JustifiedCheckpointHolds ==
    \A call \in ApplyCalls :
        LET path == PathOf(call)
            r == ApplyOf(call)
            j == consensus.highest_justified[1]
        IN  (consensus.highest_justified # None /\ NonEmptyPath(path)) =>
                /\ blocks[path.common_ancestor].header.number < j =>
                       /\ r.result = "ReorgTooDeep"
                       /\ r.consensus = consensus
                /\ r.result # "ReorgTooDeep" =>
                       \A n \in RevertedNumbers(path) : n > j

\* a reorg refused for a justified checkpoint above genesis, in a state
\* where another path that reverts a block is accepted
C20_Witness ==
    /\ last.op = "apply_reorg"
    /\ last.result = "ReorgTooDeep"
    /\ consensus.highest_justified # None
    /\ consensus.highest_justified[1] >= 1
    /\ \E call \in ApplyCalls :
           /\ PathOf(call).revert_blocks # <<>>
           /\ ApplyOf(call).result = "Ok"


\* the path holds a revert block and another block to apply of the same
\* height, both proposed by v
DoubleSigned(path, v) ==
    \E i \in DOMAIN path.apply_blocks, j \in DOMAIN path.revert_blocks :
        /\ path.apply_blocks[i] # path.revert_blocks[j]
        /\ path.apply_blocks[i].header.number = path.revert_blocks[j].header.number
        /\ path.apply_blocks[i].header.proposer = v
        /\ path.revert_blocks[j].header.proposer = v

\* C21: with slash_for_wrong_fork enabled, when apply_reorg accepts a path
\* that holds a revert block and an apply block at the same height by the
\* same proposer, a registered validator with a stake, that proposer's stake
\* after the call is strictly lower than before.
C21_DoubleSignerLosesStake ==
    \A call \in ApplyCalls :
        \A v \in DOMAIN consensus.validators :
            LET path == PathOf(call)
                r == ApplyOf(call)
            IN  (/\ consensus.config.slash_for_wrong_fork
                 /\ DoubleSigned(path, v)
                 /\ consensus.validators[v].stake > 0
                 /\ r.result = "Ok")
                => r.consensus.validators[v].stake < consensus.validators[v].stake


\* C22: when apply_reorg returns an error, the validators, the slashing
\* manager, the fork history and the fork metrics are as they were before
\* the call.
C22_FailedReorgLeavesNoTrace ==
    \A call \in ApplyCalls :
        LET r == ApplyOf(call)
        IN  r.result # "Ok" =>
                /\ r.consensus.validators = consensus.validators
                /\ r.consensus.slashing = consensus.slashing
                /\ r.consensus.fork_history = consensus.fork_history
                /\ r.consensus.fork_frequency = consensus.fork_frequency
                /\ r.consensus.total_reorg_depth = consensus.total_reorg_depth
                /\ r.consensus.max_reorg_depth_observed
                       = consensus.max_reorg_depth_observed


----------------------------------------------------------------------------
(* SpecFinality: a PoASConsensus whose justified checkpoint moves, asked   *)
(* whether blocks are final                                                *)

MaxFinalNumber == 3     \* block numbers asked about
MaxFinalHead == 5       \* head numbers given to is_finalized

IsFinalized ==
    \E block_number \in 0..MaxFinalNumber, head_number \in 0..MaxFinalHead :
        /\ last' = [op |-> "is_finalized", block_number |-> block_number,
                    head |-> head_number,
                    result |-> is_finalized(consensus, block_number, head_number)]
        /\ UNCHANGED <<nodeVars, wsVars, chainVars, frames, poolVars, consensus>>

InitFinality ==
    /\ NodeIdle
    /\ WsIdle /\ ChainIdle /\ PoolIdle /\ last = IdleLast
    /\ consensus = PoASConsensusNew(
           [min_stake |-> ReorgMinStake,
            max_validator_count |-> ReorgMaxValidators,
            finality_blocks |-> ReorgFinalityBlocks,
            slash_for_wrong_fork |-> TRUE])

NextFinality == UpdateJustifiedCheckpoint \/ IsFinalized

SpecFinality == InitFinality /\ [][NextFinality]_vars

\* C23: is_finalized(n, head) is true exactly when head >= n + finality_blocks
\* or a justified checkpoint at or above n is set.
C23_FinalizedIffDeepOrJustified ==
    \A block_number \in 0..MaxFinalNumber, head_number \in 0..MaxFinalHead :
        is_finalized(consensus, block_number, head_number)
            <=> \/ head_number >= block_number + consensus.config.finality_blocks
                \/ /\ consensus.highest_justified # None
                   /\ consensus.highest_justified[1] >= block_number


----------------------------------------------------------------------------
(* SpecSlash: the SlashingManager of a consensus slashing its registered   *)
(* validator again and again                                               *)

MaxOffenses == 5          \* offenses counted for one validator
SlashStakes == {10, 30, 100000}

SlashConditions ==
    {[kind |-> "DoubleSigning", days |-> 0],
     [kind |-> "ExtendedDowntime", days |-> 1],
     [kind |-> "ExtendedDowntime", days |-> 1001],
     [kind |-> "LiquidityMismanagement", days |-> 0],
     [kind |-> "GovernanceAttack", days |-> 0]}

SlashRegister ==
    \E address \in Address, stake_amount \in SlashStakes :
        LET r == register_validator(consensus, address, stake_amount)
        IN  /\ consensus' = r.consensus
            /\ last' = [op |-> "register_validator", result |-> r.result]
            /\ UNCHANGED <<nodeVars, wsVars, chainVars, frames, poolVars>>

\* every call of slash_validator on a registered validator
SlashCalls == [address : DOMAIN consensus.validators, condition : SlashConditions]

SlashOf(call) ==
    slash_validator(consensus.slashing, consensus.validators[call.address],
                    call.condition, None)

SlashValidator ==
    \E call \in SlashCalls :
        LET r == SlashOf(call)
        IN  /\ get_offense_count(consensus.slashing, call.address) < MaxOffenses
            /\ consensus' = [consensus EXCEPT
                                !.slashing = r.slashing,
                                !.validators[call.address] = r.validator]
            /\ last' = [op |-> "slash_validator", result |-> r.result,
                        condition |-> call.condition,
                        before |-> consensus.validators[call.address].stake]
            /\ UNCHANGED <<nodeVars, wsVars, chainVars, frames, poolVars>>

InitSlash ==
    /\ NodeIdle
    /\ WsIdle /\ ChainIdle /\ PoolIdle /\ last = IdleLast
    /\ consensus = PoASConsensusNew(
           [min_stake |-> ReorgMinStake,
            max_validator_count |-> ReorgMaxValidators,
            finality_blocks |-> ReorgFinalityBlocks,
            slash_for_wrong_fork |-> TRUE])

NextSlash == SlashRegister \/ SlashValidator

SpecSlash == InitSlash /\ [][NextSlash]_vars

\* the whole units of s * rate/10000 * halves/2, capped at s
PenaltyOf(s, rate, halves) ==
    LET q == s * rate
        whole == (q \div 20000) * halves + ((q % 20000) * halves) \div 20000
    IN  IF whole < s THEN whole ELSE s

\* C24: slash_validator on a validator with stake s, condition c and k
\* previous offenses takes min(s, s * base_rate(c)/10000 * min(3.0, 1 + 0.5k))
\* (in whole units) from the stake, adds that amount to total_slashed, adds
\* one to the validator's offense counter, and sets the status to Slashed
\* exactly for GovernanceAttack.
C24_SlashAccounting ==
    \A call \in SlashCalls :
        LET v == consensus.validators[call.address]
            k == get_offense_count(consensus.slashing, call.address)
            r == SlashOf(call)
            halves == IF 2 + k < 6 THEN 2 + k ELSE 6
            amount == PenaltyOf(v.stake, base_penalty_rate(call.condition), halves)
        IN  /\ r.result = "Ok"
            /\ r.validator.stake = v.stake - amount
            /\ r.slashing.total_slashed = consensus.slashing.total_slashed + amount
            /\ get_offense_count(r.slashing, call.address) = k + 1
            /\ r.validator.status =
                   IF call.condition.kind = "GovernanceAttack"
                   THEN "Slashed" ELSE v.status


----------------------------------------------------------------------------
(* SpecSelect: a PoASConsensus whose validators register and change status, *)
(* asked for the proposer of a slot                                         *)

MaxSlot == 10             \* slots asked about
SelectMaxValidators == 2  \* config.max_validator_count
SelectStakes == {0, 3, 5, U64Modulus - 3}

\* the orders in which a map with the keys S can yield its entries
IterationOrders(S) ==
    {o \in [1..Cardinality(S) -> S] : \A i, j \in DOMAIN o : o[i] = o[j] => i = j}

SelectRegister ==
    \E address \in Address, stake_amount \in SelectStakes :
        LET r == register_validator(consensus, address, stake_amount)
        IN  /\ consensus' = r.consensus
            /\ last' = [op |-> "register_validator", result |-> r.result]
            /\ UNCHANGED <<nodeVars, wsVars, chainVars, frames, poolVars>>

SelectUpdateStatus ==
    \E address \in Address, status \in {"Active", "Inactive"} :
        LET r == update_status(consensus.validators, address, status)
        IN  /\ consensus' = [consensus EXCEPT !.validators = r.validators]
            /\ last' = [op |-> "update_status", result |-> r.result]
            /\ UNCHANGED <<nodeVars, wsVars, chainVars, frames, poolVars>>

\* every call of select_proposer, with the order in which the validator map
\* iterates and the kind of build
SelectCalls ==
    [slot : 0..MaxSlot, order : IterationOrders(DOMAIN consensus.validators),
     overflow_checks : BOOLEAN]

SelectOf(call) ==
    select_proposer(consensus, call.slot, call.order, call.overflow_checks)

SelectProposer ==
    \E call \in SelectCalls :
        /\ last' = [op |-> "select_proposer", call |-> call,
                    result |-> SelectOf(call).result,
                    address |-> SelectOf(call).address]
        /\ UNCHANGED <<nodeVars, wsVars, chainVars, frames, poolVars, consensus>>

InitSelect ==
    /\ NodeIdle
    /\ WsIdle /\ ChainIdle /\ PoolIdle /\ last = IdleLast
    /\ consensus = PoASConsensusNew(
           [min_stake |-> 0,
            max_validator_count |-> SelectMaxValidators,
            finality_blocks |-> ReorgFinalityBlocks,
            slash_for_wrong_fork |-> TRUE])

NextSelect == SelectRegister \/ SelectUpdateStatus \/ SelectProposer

SpecSelect == InitSelect /\ [][NextSelect]_vars

\* the weight the selection gives to the validator at address a
WeightOf(a) == calculate_weight(consensus.validators[a])

\* the addresses of an order whose validators are active with a weight
Eligible(order) ==
    LET weighs(a) == is_active(consensus.validators[a]) /\ WeightOf(a) > 0
    IN  SelectSeq(order, weighs)

\* the weight of the first k addresses of a list
RECURSIVE Cumulative(_, _)
Cumulative(list, k) ==
    IF k = 0 THEN 0 ELSE WeightOf(list[k]) + Cumulative(list, k - 1)

C26_SelectionIgnoresIterationOrder ==
    \A call \in SelectCalls :
        \A order \in IterationOrders(DOMAIN consensus.validators) :
            SelectOf(call) = SelectOf([call EXCEPT !.order = order])


----------------------------------------------------------------------------
(* SpecProposed: a PoASConsensus whose validators register and change      *)
(* status, given proposed blocks to validate against their parents         *)

DefaultBlockTime == 3     \* config.block_time
MaxTimeSkew == 6          \* timestamps up to this far after the parent's

\* the blocks proposed on a parent
ProposedBlocks(parent) ==
    { BlockNew(number, parent_hash, ZeroHash, proposer, txs, GenesisGasLimit,
               parent.header.timestamp + skew).block :
        number \in {parent.header.number + 1, parent.header.number + 2},
        parent_hash \in {BlockHash(parent), ZeroHash},
        proposer \in Address,
        txs \in {<<>>, <<BlockTxSigned>>, <<BlockTxUnsigned>>},
        skew \in 0..MaxTimeSkew }

ValidateBlock ==
    \E parent \in ValidateParents :
        \E block \in ProposedBlocks(parent) :
            /\ last' = [op |-> "validate_block",
                        result |-> validate_block(consensus, block, parent)]
            /\ UNCHANGED <<nodeVars, wsVars, chainVars, frames, poolVars, consensus>>

InitProposed ==
    /\ NodeIdle
    /\ WsIdle /\ ChainIdle /\ PoolIdle /\ last = IdleLast
    /\ \E enable_fork_detection \in BOOLEAN :
           consensus = PoASConsensusNew(
               [min_stake |-> 0,
                max_validator_count |-> SelectMaxValidators,
                finality_blocks |-> ReorgFinalityBlocks,
                slash_for_wrong_fork |-> TRUE,
                block_time |-> DefaultBlockTime,
                enable_fork_detection |-> enable_fork_detection,
                max_reorg_depth |-> 0])

NextProposed == SelectRegister \/ SelectUpdateStatus \/ ValidateBlock

SpecProposed == InitProposed /\ [][NextProposed]_vars

\* the distance between two numbers
Distance(a, b) == IF a > b THEN a - b ELSE b - a

\* the three conditions of an acceptable block
Proper(c, block, parent) ==
    /\ BlockValidate(block, parent) = "Ok"
    /\ block.header.proposer \in DOMAIN c.validators
    /\ c.validators[block.header.proposer].status = "Active"
    /\ c.validators[block.header.proposer].stake > 0
    /\ Distance(block.header.timestamp,
                parent.header.timestamp + c.config.block_time) <= 2

\* C27: validate_block accepts a block only if Block::validate accepts it
\* against its parent, its proposer is a registered validator that is Active
\* with a stake above zero, and its timestamp is within 2 of the parent's
\* timestamp plus block_time; a block failing any of these is not accepted,
\* and is rejected with an error whenever Block::validate returns.
C27_AcceptedBlocksAreProper ==
    \A parent \in ValidateParents :
        \A block \in ProposedBlocks(parent) :
            LET result == validate_block(consensus, block, parent)
            IN  /\ result = "Ok" => Proper(consensus, block, parent)
                /\ ~Proper(consensus, block, parent) =>
                       IF BlockValidate(block, parent) = "panic"
                       THEN result = "panic"
                       ELSE result \in {"ValidationError", "ValidatorNotFound",
                                        "ReorgTooDeep"}

\* a block was accepted while a validator that cannot produce is registered
C27_Witness ==
    /\ last.op = "validate_block"
    /\ last.result = "Ok"
    /\ \E a \in DOMAIN consensus.validators :
           ~can_produce_blocks(consensus.validators[a])


----------------------------------------------------------------------------
(* SpecStore: store_block calls on a Database, one at a time, each taking  *)
(* a step per batch it writes; a write can fail and the process can stop   *)
(* between two writes                                                      *)

MaxStoreNumber == 2    \* block numbers of the stored blocks

\* the transactions of the stored blocks
StoreTxLists == {<<>>, <<BlockTxSigned>>, <<BlockTxSigned, BlockTxUnsigned>>}

StoreBlocks ==
    { BlockNew(number, BlockHash(Genesis), ZeroHash, 0, txs, GenesisGasLimit,
               number).block :
        number \in 1..MaxStoreNumber, txs \in StoreTxLists }

\* store_block up to and with the write of the block's batch
StoreBlockCall ==
    \E block \in StoreBlocks, written \in BOOLEAN :
        /\ tasks.store_block = None
        /\ IF written
           THEN /\ database' = block_batch(database, block)
                /\ tasks' = [tasks EXCEPT !.store_block =
                                Some([block |-> block, next |-> 1])]
                /\ last' = [op |-> "store_block", result |-> "running"]
           ELSE /\ last' = [op |-> "store_block", result |-> "DatabaseError"]
                /\ UNCHANGED <<database, tasks>>
        /\ UNCHANGED <<wsVars, chainVars, frames, poolVars, consensus, network>>

\* one turn of the loop over the block's transactions
StoreBlockTransaction ==
    \E written \in BOOLEAN :
        /\ tasks.store_block # None
        /\ LET call == tasks.store_block[1]
               tx == call.block.transactions[call.next]
           IN  /\ call.next <= Len(call.block.transactions)
               /\ IF written
                  THEN /\ database' = store_transaction(database, tx,
                               synthetic_receipt(tx, call.block.header.number))
                       /\ tasks' = [tasks EXCEPT !.store_block =
                                       Some([call EXCEPT !.next = @ + 1])]
                       /\ last' = [op |-> "store_block", result |-> "running"]
                  ELSE /\ tasks' = [tasks EXCEPT !.store_block = None]
                       /\ last' = [op |-> "store_block", result |-> "DatabaseError"]
                       /\ UNCHANGED database
        /\ UNCHANGED <<wsVars, chainVars, frames, poolVars, consensus, network>>

\* the loop is over
StoreBlockReturn ==
    /\ tasks.store_block # None
    /\ tasks.store_block[1].next > Len(tasks.store_block[1].block.transactions)
    /\ tasks' = [tasks EXCEPT !.store_block = None]
    /\ last' = [op |-> "store_block", result |-> "Ok"]
    /\ UNCHANGED <<wsVars, chainVars, frames, poolVars, consensus, network, database>>

\* the process stops in the middle of a call, and the store is opened again
StoreCrash ==
    /\ tasks.store_block # None
    /\ tasks' = [tasks EXCEPT !.store_block = None]
    /\ last' = [op |-> "store_block", result |-> "crash"]
    /\ UNCHANGED <<wsVars, chainVars, frames, poolVars, consensus, network, database>>

InitStore ==
    /\ NodeIdle
    /\ WsIdle /\ ChainIdle /\ PoolIdle /\ ConsIdle /\ last = IdleLast

NextStore ==
    \/ StoreBlockCall
    \/ StoreBlockTransaction
    \/ StoreBlockReturn
    \/ StoreCrash

SpecStore == InitStore /\ [][NextStore]_vars

\* the block is in Blocks, or BlockHashes or BlockNumbers points at it
BlockVisible(block) ==
    \/ BlockHash(block) \in DOMAIN database.blocks
    \/ \E n \in DOMAIN database.block_hashes :
           database.block_hashes[n] = BlockHash(block)
    \/ BlockHash(block) \in DOMAIN database.block_numbers

\* the transaction has its record and its receipt
TxStored(tx) ==
    /\ TxHash(tx) \in DOMAIN database.transactions
    /\ TxHash(tx) \in DOMAIN database.receipts

\* C28: store_block is all or nothing: in every state, also after a failed
\* write or a stop of the process in the middle of a call, a block that is
\* visible in Blocks, BlockHashes or BlockNumbers has the record and the
\* receipt of each of its transactions, and a transaction's record and
\* receipt are there only with a visible block that holds the transaction.
C28_StoreBlockAllOrNothing ==
    /\ \A block \in StoreBlocks :
           BlockVisible(block) =>
               \A i \in DOMAIN block.transactions : TxStored(block.transactions[i])
    /\ \A h \in DOMAIN database.transactions \cup DOMAIN database.receipts :
           \E block \in StoreBlocks :
               /\ BlockVisible(block)
               /\ \E i \in DOMAIN block.transactions :
                      TxHash(block.transactions[i]) = h


----------------------------------------------------------------------------
(* SpecProduce: a node whose mempool receives transactions, whose          *)
(* validators register, and which is asked for blocks                      *)

\* the hashes of the transactions of a block
IncludedHashes(block) ==
    {TxHash(block.transactions[i]) : i \in DOMAIN block.transactions}

\* blocks_produced of the validator at address, 0 when there is none
ProducedBy(address) ==
    IF address \in DOMAIN consensus.validators
    THEN consensus.validators[address].blocks_produced
    ELSE 0

\* Node::produce_block; the history keeps the hashes that the call before
\* included, when that call was a produce_block that returned a block
ProduceBlock ==
    \E walk \in Walks, overflow_checks \in BOOLEAN :
        LET r == node_produce_block(Pool, blocks, head, WS, walk,
                                    overflow_checks, 1)
        IN  /\ SetPool(r.p)
            /\ last' = [op |-> "produce_block",
                        result |-> r.result,
                        block |-> r.block,
                        previous |-> IF last.op = "produce_block" /\ last.result = "Ok"
                                     THEN IncludedHashes(last.block)
                                     ELSE {},
                        produced_before |-> ProducedBy(r.block.header.proposer)]
            /\ UNCHANGED <<wsVars, chainVars, frames, consensus, nodeVars>>

\* the consensus of the node before a validator has registered
ProduceConsensus ==
    PoASConsensusNew([min_stake |-> 0,
                      max_validator_count |-> SelectMaxValidators,
                      finality_blocks |-> ReorgFinalityBlocks,
                      slash_for_wrong_fork |-> TRUE,
                      block_time |-> DefaultBlockTime,
                      enable_fork_detection |-> TRUE,
                      max_reorg_depth |-> MaxReorgDepth])

ProduceStake == 5    \* the stake of the validator at the proposer's address

\* the validator at the address that Node::produce_block names as proposer
\* has registered, or no validator has
InitProduce ==
    /\ NodeIdle
    /\ ChainAtGenesis /\ frames = <<>> /\ last = IdleLast
    /\ PoolIs(PoolNew([max_size |-> PoolMaxSize,
                       max_per_account |-> PoolMaxPerAccount,
                       min_gas_price |-> DefaultMinGasPrice,
                       enable_replacement |-> DefaultEnableReplacement]))
    /\ consensus \in {ProduceConsensus,
                      register_validator(ProduceConsensus, 0, ProduceStake).consensus}

NextProduce == PoolAdd \/ ProduceBlock

SpecProduce == InitProduce /\ [][NextProduce]_vars

\* C29: when Node::produce_block has returned a block, no transaction of the
\* block is in the mempool any more, the call did not include a transaction
\* that the produce_block call just before it included, and blocks_produced
\* of the block's proposer, when it is a registered validator, has grown.
C29_ProducedTransactionsLeaveThePool ==
    (last.op = "produce_block" /\ last.result = "Ok") =>
        /\ IncludedHashes(last.block) \cap DOMAIN by_hash = {}
        /\ IncludedHashes(last.block) \cap last.previous = {}
        /\ last.block.header.proposer \in DOMAIN consensus.validators =>
               ProducedBy(last.block.header.proposer) > last.produced_before


----------------------------------------------------------------------------
(* SpecSync: a NetworkService with a mempool attached, whose peers send    *)
(* mempool-sync requests; a handler takes a step per lock it takes, and    *)
(* the handlers of several requests interleave                             *)

MaxPeer == 1          \* peers are 0..MaxPeer
MaxHandlers == 2      \* handlers in progress at a time
MaxResponses == 2     \* responses in the outbox of a peer

Peers == 0..MaxPeer

SyncRequests == [min_gas_price : 1..PoolMaxGasPrice, max_count : {0, 1}]

\* the transactions of the attached mempool
SyncTx(from, gas_price, gas_limit) ==
    [from |-> from, nonce |-> 0,
     tx_type |-> [kind |-> "Transfer", to |-> 0, amount |-> ExecAmount,
                  data |-> <<>>],
     gas_price |-> gas_price, gas_limit |-> gas_limit, signature |-> Some(1)]

SyncConfig ==
    [max_size |-> PoolMaxSize, max_per_account |-> PoolMaxPerAccount,
     min_gas_price |-> DefaultMinGasPrice,
     enable_replacement |-> DefaultEnableReplacement]

\* An empty mempool, a mempool of one transaction, and a mempool of two
\* whose gas limits sum past the u64 limit
SyncPools ==
    LET one == add(PoolNew(SyncConfig), SyncTx(0, 1, TxGasUsed), 0, ZeroHash).p
        big == add(PoolNew(SyncConfig),
                   SyncTx(0, 2, U64Modulus - TxGasUsed), 0, ZeroHash).p
    IN  {PoolNew(SyncConfig), one,
         add(big, SyncTx(1, 1, TxGasUsed), 0, ZeroHash).p}

\* the handlers of peer_id that are in progress
HandlersOf(peer_id) ==
    {i \in DOMAIN tasks.mempool_sync : tasks.mempool_sync[i].peer_id = peer_id}

\* the handlers of peer_id that are serving its request
Serving(peer_id) ==
    {i \in HandlersOf(peer_id) : tasks.mempool_sync[i].pc \in {"respond", "clear"}}

\* a request arrives: handle_mempool_sync_request up to the release of the
\* inflight lock
SyncRequest ==
    \E peer_id \in Peers, req \in SyncRequests :
        LET r == sync_begin(network, tasks.mempool_sync, peer_id, req)
        IN  /\ Len(r.handlers) <= MaxHandlers
            /\ network' = r.network
            /\ tasks' = [tasks EXCEPT !.mempool_sync = r.handlers]
            /\ last' = [op |-> "mempool_sync_request", peer_id |-> peer_id,
                        result |-> r.result,
                        serving |-> Serving(peer_id) # {},
                        idle |-> HandlersOf(peer_id) = {},
                        network |-> network, handlers |-> tasks.mempool_sync]
            /\ UNCHANGED <<wsVars, chainVars, frames, poolVars, consensus, database>>

\* a handler reads the mempool and pushes its response
SyncRespond ==
    \E i \in DOMAIN tasks.mempool_sync, walk \in Walks, overflow_checks \in BOOLEAN :
        LET r == sync_respond(network, tasks.mempool_sync, i, Pool, walk,
                              overflow_checks)
            peer_id == tasks.mempool_sync[i].peer_id
        IN  /\ tasks.mempool_sync[i].pc = "respond"
            /\ peer_id \in DOMAIN network.outbox =>
                   Len(network.outbox[peer_id]) < MaxResponses
            /\ network' = r.network
            /\ tasks' = [tasks EXCEPT !.mempool_sync = r.handlers]
            /\ last' = [op |-> "mempool_sync_respond", peer_id |-> peer_id,
                        result |-> r.result]
            /\ UNCHANGED <<wsVars, chainVars, frames, poolVars, consensus, database>>

\* a handler removes its key and returns
SyncClear ==
    \E i \in DOMAIN tasks.mempool_sync :
        LET r == sync_clear(network, tasks.mempool_sync, i)
        IN  /\ tasks.mempool_sync[i].pc = "clear"
            /\ network' = r.network
            /\ tasks' = [tasks EXCEPT !.mempool_sync = r.handlers]
            /\ last' = [op |-> "mempool_sync_return",
                        peer_id |-> tasks.mempool_sync[i].peer_id,
                        result |-> r.result]
            /\ UNCHANGED <<wsVars, chainVars, frames, poolVars, consensus, database>>

InitSync ==
    /\ NodeIdle
    /\ WsIdle /\ ChainIdle /\ ConsIdle /\ last = IdleLast
    /\ \E p \in SyncPools : PoolIs(p)

NextSync == SyncRequest \/ SyncRespond \/ SyncClear

SpecSync == InitSync /\ [][NextSync]_vars

\* C30: mempool sync is single-flight per peer.  No peer has two handlers in
\* progress; a request of a peer that arrives while a request of that peer is
\* served fails with Timeout and changes neither the inflight set, the outbox
\* nor the handlers; a request of a peer with no handler in progress is taken
\* up, whatever the other peers' handlers do; and when a handler has returned,
\* its peer's key is out of the inflight set.
C30_SingleFlightPerPeer ==
    /\ \A peer_id \in Peers : Cardinality(HandlersOf(peer_id)) <= 1
    /\ last.op = "mempool_sync_request" =>
           /\ last.serving =>
                  /\ last.result = "Timeout"
                  /\ network = last.network
                  /\ tasks.mempool_sync = last.handlers
           /\ last.idle =>
                  /\ last.result = "running"
                  /\ Serving(last.peer_id) # {}
    /\ last.op = "mempool_sync_return" =>
           /\ last.result = "Ok"
           /\ SyncKey(last.peer_id) \notin network.inflight
           /\ HandlersOf(last.peer_id) = {}

\* a peer that was answered before is being served again, the other peer is
\* being served too, and a second request of the first peer has just failed
C30_Witness ==
    /\ last.op = "mempool_sync_request"
    /\ last.result = "Timeout"
    /\ last.peer_id \in DOMAIN network.outbox
    /\ Serving(last.peer_id) # {}
    /\ \E other \in Peers \ {last.peer_id} : Serving(other) # {}

\* a handler has stopped in a panic of get_pending, its key left behind
SyncPanicked ==
    \E i \in DOMAIN tasks.mempool_sync :
        /\ tasks.mempool_sync[i].pc = "panicked"
        /\ SyncKey(tasks.mempool_sync[i].peer_id) \in network.inflight


----------------------------------------------------------------------------
(* SpecMerkle: MerkleTree::new on lists of leaves *)

MaxLeaves == 5    \* leaves of a tree

LeafData == {<<1>>, <<2>>}

LeafLists == SeqsUpTo(LeafData, MaxLeaves)

InitMerkle ==
    /\ NodeIdle
    /\ WsIdle /\ ChainIdle /\ PoolIdle /\ ConsIdle
    /\ \E leaves \in LeafLists : last = [op |-> "input", leaves |-> leaves]

MerkleNew ==
    /\ last.op = "input"
    /\ last' = [op |-> "MerkleTree::new", leaves |-> last.leaves,
                status |-> MerkleRoot(last.leaves).status,
                root |-> MerkleRoot(last.leaves).root]
    /\ UNCHANGED <<nodeVars, wsVars, chainVars, poolVars, frames, consensus>>

NextMerkle == MerkleNew

SpecMerkle == InitMerkle /\ [][NextMerkle]_vars

\* the reference procedure: the level above a level of hashes
RECURSIVE PairUp(_)
PairUp(level) ==
    IF level = <<>> THEN <<>>
    ELSE <<HashBytes(Field(level[1]) \o Field(level[2]))>> \o
         PairUp(SubSeq(level, 3, Len(level)))

\* the reference procedure: the root above a level whose length is a power
\* of two
RECURSIVE RootOver(_)
RootOver(level) == IF Len(level) = 1 THEN level[1] ELSE RootOver(PairUp(level))

\* the reference procedure: hash the leaves, repeat the last one up to the
\* next power of two, and hash pairs up to the root
ReferenceRoot(leaves) ==
    LET hashed == [i \in DOMAIN leaves |-> HashBytes(leaves[i])]
        padded == [i \in 1..next_power_of_two(Len(leaves)) |->
                      IF i <= Len(leaves) THEN hashed[i] ELSE hashed[Len(leaves)]]
    IN  RootOver(padded)

\* C31: MerkleTree::new succeeds for every non-empty list of leaves, of any
\* length, and its root is the root of the reference procedure (for one leaf,
\* the hash of the leaf); on no leaves it returns an error.
C31_MerkleRootIsReferenceRoot ==
    last.op = "MerkleTree::new" =>
        IF last.leaves = <<>> THEN last.status = "err"
        ELSE /\ last.status = "ok"
             /\ last.root = ReferenceRoot(last.leaves)
             /\ Len(last.leaves) = 1 => last.root = HashBytes(last.leaves[1])


----------------------------------------------------------------------------
(* SpecLocks: the activities of the node and of the network service, each  *)
(* running its program again and again, a step per acquisition or release  *)

\* the guards that an activity holds
Held(activity) == HeldBefore(ProgramOf(activity), tasks.activities[activity])

\* the next step of an activity
NextStep(activity) == ProgramOf(activity)[tasks.activities[activity]]

\* the activities whose guards keep the activity from its next step
Blockers(activity) ==
    LET step == NextStep(activity)
    IN  IF step.op # "acquire" THEN {}
        ELSE { other \in Activities \ {activity} :
                 \E i \in DOMAIN Held(other) :
                     /\ Held(other)[i].lock = step.lock
                     /\ ~(step.mode = "read" /\ Held(other)[i].mode = "read") }

\* an activity takes its next step when no guard of another activity is in
\* the way, and starts again after its last step
LockStep ==
    \E activity \in Activities :
        /\ Blockers(activity) = {}
        /\ tasks' = [tasks EXCEPT !.activities[activity] =
                        IF @ = Len(ProgramOf(activity)) THEN 1 ELSE @ + 1]
        /\ UNCHANGED <<wsVars, chainVars, frames, poolVars, consensus, database,
                       network, last>>

InitLocks ==
    /\ NodeIdle
    /\ WsIdle /\ ChainIdle /\ PoolIdle /\ ConsIdle /\ last = IdleLast

NextLocks == LockStep

SpecLocks == InitLocks /\ [][NextLocks]_vars

\* the one order of the locks: mempool, chain, consensus, then the locks of
\* the network service, and storage last
LockRank(lock) ==
    CASE lock = "mempool" -> 1
      [] lock = "chain" -> 2
      [] lock = "consensus" -> 3
      [] lock = "seen_tx" -> 4
      [] lock = "inflight" -> 5
      [] lock = "net_mempool" -> 6
      [] lock = "peer_manager" -> 7
      [] lock = "outbox" -> 8
      [] lock = "storage" -> 9

\* the activities of S that wait, and wait only for activities of S
Stuck(S) ==
    {activity \in S : Blockers(activity) # {} /\ Blockers(activity) \subseteq S}

\* the largest set of activities that wait for each other for ever
RECURSIVE Deadlocked(_)
Deadlocked(S) == IF Stuck(S) = S THEN S ELSE Deadlocked(Stuck(S))

\* C32: an activity that holds several locks took them in the one order of
\* the locks (mempool, chain, consensus, storage last), and no set of
\* activities waits for each other for ever.
C32_LocksTakenInOneOrder ==
    /\ \A activity \in Activities :
           \A i, j \in DOMAIN Held(activity) :
               i < j => LockRank(Held(activity)[i].lock) < LockRank(Held(activity)[j].lock)
    /\ Deadlocked(Activities) = {}

\* an activity holds two locks and another activity waits for one of them
C32_Witness ==
    \E activity \in Activities :
        /\ Len(Held(activity)) = 2
        /\ \E other \in Activities : activity \in Blockers(other)

\* C33: finality is never revoked: a block that is_finalized reports final
\* at a head is reported final after every step, at that head and at every
\* later one.
C33_FinalityIsNeverRevoked ==
    [][\A block_number \in 0..MaxFinalNumber :
         \A head_number \in 0..MaxFinalHead, later \in 0..MaxFinalHead :
             (later >= head_number /\ is_finalized(consensus, block_number, head_number))
                 => is_finalized(consensus', block_number, later)]_vars

\* C34: after successful add_block calls, also of blocks built on a stored
\* block that is not the head, the number index describes the chain that
\* ends at head: the entry at height() is head, each entry from 1 to height()
\* is a block whose parent is the entry below it, and verify_chain succeeds.
C34_NumberIndexDescribesHeadChain ==
    LET top == height(blocks, head)
    IN  /\ top \in DOMAIN block_by_number /\ block_by_number[top] = head
        /\ \A n \in 1..top :
               /\ n \in DOMAIN block_by_number
               /\ n - 1 \in DOMAIN block_by_number
               /\ block_by_number[n] \in DOMAIN blocks
               /\ blocks[block_by_number[n]].header.parent_hash = block_by_number[n - 1]
        /\ verify_chain(blocks, block_by_number, head, BlockHash(Genesis)) = "Ok"

\* the sum of the balances of the accounts of addresses S
RECURSIVE TotalBalance(_, _)
TotalBalance(ws, S) ==
    IF S = {} THEN 0
    ELSE LET a == CHOOSE x \in S : TRUE
         IN  get_balance(ws, a) + TotalBalance(ws, S \ {a})

\* C35: a Transfer that execute_transaction executes conserves value: the sum
\* of all balances goes down by the fee of 21000 * gas_price and by nothing
\* else, the sender loses amount + fee and the recipient gains amount, also
\* when the recipient is the sender (who then loses the fee).
C35_TransferConservesValue ==
    \A tx \in ExecTxs :
        LET r == execute_transaction(WS, receipts, height(blocks, head), tx)
            fee == TxGasUsed * tx.gas_price
            amount == tx.tx_type.amount
            to == tx.tx_type.to
        IN  (tx.tx_type.kind = "Transfer" /\ r.result = "Ok") =>
                /\ TotalBalance(r.ws, Address) = TotalBalance(WS, Address) - fee
                /\ get_balance(r.ws, tx.from) =
                       IF to = tx.from THEN get_balance(WS, tx.from) - fee
                       ELSE get_balance(WS, tx.from) - amount - fee
                /\ to # tx.from =>
                       get_balance(r.ws, to) = get_balance(WS, to) + amount


----------------------------------------------------------------------------
(* SpecPropose: a node with accounts and a mempool whose consensus         *)
(* produces blocks on the head of the chain                                *)

MaxProduced == 2    \* blocks_produced of a validator

\* chain.state_mut().set_account(address, Account::with_balance(balance))
ProposeFund ==
    \E address \in Address :
        /\ address \notin DOMAIN accounts
        /\ Apply(set_account(WS, address, with_balance(TxGasUsed)))
        /\ last' = [op |-> "set_account"]
        /\ UNCHANGED <<nodeVars, frames, chainVars, poolVars, consensus>>

\* the transactions submitted to the producing node: those of ordinary gas
\* limit
ProposeTxs == {tx \in PoolTxs : tx.gas_limit = TxGasUsed}

\* TransactionPool::add of a submitted transaction
ProposeAdd ==
    \E tx \in ProposeTxs, current_nonce \in 0..MaxNonce :
        \E victim \in IF EvictionVictims(Pool) = {} THEN {ZeroHash}
                       ELSE EvictionVictims(Pool) :
            LET r == add(Pool, tx, current_nonce, victim)
            IN  /\ SetPool(r.p)
                /\ last' = [op |-> "add", result |-> r.result]
                /\ UNCHANGED <<nodeVars, wsVars, chainVars, frames, consensus>>

\* the calls of the two produce_block methods in the current state
ProposeCalls ==
    [proposer : Address, walk : Walks, overflow_checks : BOOLEAN]

ConsensusBlockOf(call) ==
    produce_block(consensus, blocks[head], call.proposer, Pool, call.walk,
                  call.overflow_checks, blocks[head].header.timestamp + 1)

NodeBlockOf(call) ==
    node_produce_block(Pool, blocks, head, WS, call.walk, call.overflow_checks,
                       blocks[head].header.timestamp + 1)

\* PoASConsensus::produce_block on the head of the chain
ConsensusProduceBlock ==
    \E call \in ProposeCalls :
        LET r == ConsensusBlockOf(call)
        IN  /\ \A a \in DOMAIN r.consensus.validators :
                   r.consensus.validators[a].blocks_produced <= MaxProduced
            /\ SetPool(r.p)
            /\ consensus' = r.consensus
            /\ last' = [op |-> "produce_block", result |-> r.result]
            /\ UNCHANGED <<nodeVars, wsVars, chainVars, frames>>

InitPropose == InitProduce

NextPropose == ProposeAdd \/ ProposeFund \/ ConsensusProduceBlock

SpecPropose == InitPropose /\ [][NextPropose]_vars

\* the block is built on the head and add_block takes it
AcceptedOnHead(block) ==
    /\ block.header.number = height(blocks, head) + 1
    /\ block.header.parent_hash = head
    /\ block.header.state_root = state_root(WS)
    /\ block.header.gas_used <= block.header.gas_limit
    /\ add_block(blocks, block_by_number, head, WS, block).result = "Ok"

\* C36: a block that Node::produce_block or PoASConsensus::produce_block
\* returns for the head is a block that add_block accepts on the same chain:
\* its number is the head's plus one, its parent is the head, its state root
\* is the chain's state root, and its gas_used is within its gas_limit.
C36_ProducedBlockIsAccepted ==
    \A call \in ProposeCalls :
        /\ NodeBlockOf(call).result = "Ok" => AcceptedOnHead(NodeBlockOf(call).block)
        /\ ConsensusBlockOf(call).result = "Ok" =>
               AcceptedOnHead(ConsensusBlockOf(call).block)


----------------------------------------------------------------------------
(* mempool.rs: the counters of the pool against its indexes *)

\* the entries held in the pending index: (gas price, hash)
PendingEntries ==
    UNION { {<<g, h>> : h \in DOMAIN pending[g]} : g \in DOMAIN pending }

\* the entries held in the queued index: (sender, nonce)
QueuedEntries ==
    UNION { {<<a, n>> : n \in DOMAIN queued[a]} : a \in DOMAIN queued }

\* C37: after any sequence of add, remove, remove_included and prune calls
\* (prune removes its entries by calls of remove), pending_count() is the
\* number of entries held in the pending index,
\* queued_count() is the number of entries held in the queued index, and the
\* two together are the size of by_hash.
C37_CountersMatchIndexes ==
    /\ metrics.pending_count = Cardinality(PendingEntries)
    /\ metrics.queued_count = Cardinality(QueuedEntries)
    /\ metrics.pending_count + metrics.queued_count = Cardinality(DOMAIN by_hash)


\* C38: an add that returns an error leaves the pool exactly as it was: no
\* resident transaction is evicted or moved and no counter changes.
C38_FailedAddLeavesPool ==
    \A tx \in PoolTxs, current_nonce \in 0..MaxNonce :
        \A victim \in EvictionVictims(Pool) \cup {ZeroHash} :
            LET r == add(Pool, tx, current_nonce, victim)
            IN  r.result # "Ok" => r.p = Pool


----------------------------------------------------------------------------
(* SpecStake: validators whose stakes reach past the u64 range, as a stake *)
(* built with Amount::from_tokens from 19 tokens on does, slashed again    *)
(* and again                                                               *)

\* a stake within u64, and stakes of two 64-bit digits
WideStakes == {100000, U64Modulus + 30, U64Modulus + 100000}

StakeRegister ==
    \E address \in Address, stake_amount \in WideStakes :
        LET r == register_validator(consensus, address, stake_amount)
        IN  /\ consensus' = r.consensus
            /\ last' = [op |-> "register_validator", result |-> r.result]
            /\ UNCHANGED <<nodeVars, wsVars, chainVars, frames, poolVars>>

InitStake == InitSlash

NextStake == StakeRegister \/ SlashValidator

SpecStake == InitStake /\ [][NextStake]_vars

\* s * rate/10000 * halves/2 capped at s, on the whole of s, each step in
\* whole units
WholeStakePenalty(s, rate, halves) ==
    LET base == MulDiv(s, rate, 10000)
    IN  IF base > MulDiv(s, 2, halves) THEN s ELSE MulDiv(base, halves, 2)

\* C39: the slashing penalty is computed from the validator's whole stake:
\* for every stake, also one that does not fit in 64 bits, slash_validator
\* reduces the stake by stake * base_rate/10000 * severity_multiplier capped
\* at the stake, never by a value derived from a part of the stake's digits.
C39_PenaltyFromWholeStake ==
    \A call \in SlashCalls :
        LET v == consensus.validators[call.address]
            k == get_offense_count(consensus.slashing, call.address)
            r == SlashOf(call)
        IN  /\ r.result = "Ok"
            /\ v.stake - r.validator.stake =
                   WholeStakePenalty(v.stake,
                                     base_penalty_rate(call.condition),
                                     severity_multiplier(k))


\* C40: slashed funds are fully accounted for: the burn, insurance and
\* whistleblower parts of the distribution of every slashed amount sum to
\* exactly that amount.
C40_DistributionSumsToSlashedAmount ==
    \A call \in SlashCalls :
        LET r == SlashOf(call)
            distribution == from_slashed_amount(r.penalty[1].amount)
        IN  r.result = "Ok" =>
                distribution.burn + distribution.insurance
                    + distribution.whistleblower = r.penalty[1].amount

====
